--------------------------- MODULE ResourceBroker ---------------------------
(***************************************************************************)
(* The accounting of the reference resource broker (ReferenceAdapters, the *)
(* IResourceBroker part): one contract at a time, the units reserved and   *)
(* released under it per resource class, and the generation that binds     *)
(* release receipts to the contract.                                       *)
(*                                                                         *)
(* A map without an entry for a resource class is the same as a zero       *)
(* entry: every reader treats the two alike.                               *)
(***************************************************************************)
EXTENDS Naturals

CONSTANTS
  Executions,   \* execution scopes (an ExecutionId with its AttemptId)
  NoExecution,  \* the default, invalid scope
  Resources,    \* resource classes a contract may lease
  MaxUnits,     \* bound: the most units a lease has
  MaxGen        \* the largest generation; the code's is 2^64 - 1

ASSUME BrokerAssumption ==
  /\ NoExecution \notin Executions
  /\ MaxUnits \in Nat
  /\ MaxGen \in Nat \ {0}

Generations == 0 .. MaxGen   \* 0 is the invalid generation
Scopes == Executions \cup {NoExecution}
Units == 0 .. MaxUnits

VARIABLES
  contract_gen,         \* contract_gen_
  contract_execution,   \* contract_execution_
  reserved,             \* reserved_
  released,             \* released_
  granted               \* history: what the current contract granted

brokerVars == <<contract_gen, contract_execution, reserved, released, granted>>

BrokerTypeOK ==
  /\ contract_gen \in Generations
  /\ contract_execution \in Scopes
  /\ reserved \in [Resources -> Units]
  /\ released \in [Resources -> Units]
  /\ granted \in [Resources -> Units]

BrokerInit ==
  /\ contract_gen = 0
  /\ contract_execution = NoExecution
  /\ reserved = [r \in Resources |-> 0]
  /\ released = [r \in Resources |-> 0]
  /\ granted = [r \in Resources |-> 0]

\* Generation_advance adds in 64 bits and wraps, unlike Generation::next.
Generation_advance(g) == (g + 1) % (MaxGen + 1)

set_contract(e, g, leases) ==
  /\ contract_gen' = g
  /\ contract_execution' = e
  /\ reserved' = leases
  /\ released' = [r \in Resources |-> 0]
  /\ granted' = leases

advance_contract ==
  /\ contract_gen' = Generation_advance(contract_gen)
  /\ UNCHANGED <<contract_execution, reserved, released, granted>>

\* A receipt for another execution or another generation, or for more units
\* than are reserved, is refused and changes nothing.
broker_release(e, rc, units, expected) ==
  /\ e = contract_execution
  /\ expected = contract_gen
  /\ units <= reserved[rc]
  /\ reserved' = [reserved EXCEPT ![rc] = @ - units]
  /\ released' = [released EXCEPT ![rc] = @ + units]
  /\ UNCHANGED <<contract_gen, contract_execution, granted>>

release_all_leases_kept(e) ==
  /\ IF e = contract_execution
       THEN released' = [r \in Resources |-> released[r] + reserved[r]]
       ELSE UNCHANGED released
  /\ UNCHANGED <<reserved, contract_gen, contract_execution, granted>>

\* The loop of PreemptionRuntime::request_release over the leases of
\* current_contract: each lease asks for exactly the units reserved under the
\* generation just read, so only a wrong execution makes the releases fail.
\* Their results are ignored.
release_all_leases(e) ==
  /\ IF e = contract_execution
       THEN /\ reserved' = [r \in Resources |-> 0]
            /\ released' = [r \in Resources |-> released[r] + reserved[r]]
       ELSE UNCHANGED <<reserved, released>>
  /\ UNCHANGED <<contract_gen, contract_execution, granted>>

\* The generation is overwritten before the checks: by the one supplied when it
\* is valid, else by the next one.
reacquire(e, rc, units, g) ==
  /\ contract_gen' = IF g # 0 THEN g ELSE Generation_advance(contract_gen)
  /\ IF e = contract_execution /\ units <= released[rc]
       THEN /\ released' = [released EXCEPT ![rc] = @ - units]
            /\ reserved' = [reserved EXCEPT ![rc] = @ + units]
       ELSE UNCHANGED <<reserved, released>>
  /\ UNCHANGED <<contract_execution, granted>>

BrokerNext ==
  \/ \E e \in Executions, g \in Generations, leases \in [Resources -> Units] :
       set_contract(e, g, leases)
  \/ advance_contract
  \/ \E e \in Executions, rc \in Resources, units \in Units, g \in Generations :
       \/ broker_release(e, rc, units, g)
       \/ reacquire(e, rc, units, g)

BrokerSpec == BrokerInit /\ [][BrokerNext]_brokerVars

------------------------------------------------------------------------------
\* Accounting closes exactly: whatever releases and reacquisitions were tried,
\* refused or repeated, the units reserved and the units released of every
\* resource add up to what the contract granted, so no receipt counts twice.
AccountingCloses ==
  \A r \in Resources : reserved[r] + released[r] = granted[r]
==============================================================================
