------------------------------ MODULE Serving ------------------------------
(***************************************************************************)
(* What the models of the API's smaller services have in common.  A        *)
(* handler runs alone from one await to the next; what it carries over an  *)
(* await is request[r], and another handler may run in between.  A handler *)
(* that is finished, refused or dead leaves the record Idle.               *)
(***************************************************************************)
EXTENDS Integers, FiniteSets

CONSTANTS
  Users,
  Rows,         \* the rows a table can get, numbered in order of insertion
  Requests,     \* the requests the API can be serving at the same time
  None

ASSUME RowsAssumption == Rows \subseteq Nat
ASSUME RequestsAssumption == IsFiniteSet(Requests)
ASSUME NoneAssumption == None \notin Users \cup Rows

VARIABLE
  request       \* where each request stands: stage, user, subject and value

Waiting(at, who, on, val) == [at |-> at, who |-> who, on |-> on, val |-> val]
Idle == Waiting("idle", None, None, None)

Becomes(r, next) == request' = [request EXCEPT ![r] = next]
Starts(r) == request[r] = Idle
Ends(r) == Becomes(r, Idle)

NoneServed == request = [r \in Requests |-> Idle]

(* Of two rows that are there the later one has the greater number.        *)
IsNext(n, there) == n \notin there /\ \A m \in Rows : m \in there <=> m < n
IsLatest(n, those) == n \in those /\ \A m \in those : m <= n
=============================================================================
