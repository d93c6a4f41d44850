---------------------------- MODULE MCConnection ----------------------------
(***************************************************************************)
(* An instance of TcpConnection for TLC: a header of two cells, a trailer  *)
(* of one and bodies of at most one more than allowed, so that every field *)
(* of a frame can be split between two reads, and reads that hold more     *)
(* than a frame.  A frame has at most one thing wrong with it.             *)
(***************************************************************************)
EXTENDS TcpConnection

OneFault ==
  {f \in Frames :
     IF f.fault = "none" THEN f.body = f.body_len \/ (f.body <= 1 /\ f.body_len <= 1)
                         ELSE f.body = 1 /\ f.body_len = 1}

MCNext ==
  \/ \E f \in OneFault : send(f)
  \/ write_all
  \/ close
  \/ Reader

MCSpec == TcpInit /\ [][MCNext]_connVars /\ TcpFairness
==============================================================================
