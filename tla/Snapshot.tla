------------------------------ MODULE Snapshot ------------------------------
(***************************************************************************)
(* The sorted snapshot of the RIB view (internal/rib/snapshot.go).  A      *)
(* full-table reader must not hold the view's lock, so it works from a     *)
(* copy.  Writers record the prefixes they change in a dirty set; a        *)
(* refresh merges only those into the previous copy.  When the set passes  *)
(* its limit the copy is dropped instead.  A refresh has three steps, and  *)
(* writers run between them: it takes the changes under the lock, merges   *)
(* them without it, and stores what it built.                              *)
(***************************************************************************)
EXTENDS Integers, FiniteSets

CONSTANTS
  RPrefix,      \* prefixes of the view
  Route,        \* what can be published for a prefix
  NoRoute,      \* nothing is
  DirtyLimit    \* how many changes a snapshot tolerates

ASSUME SnapshotConstants == NoRoute \notin Route /\ IsFiniteSet(RPrefix) /\ DirtyLimit \in Nat

VARIABLES
  routes,       \* the selected route per prefix
  snap,         \* the snapshot: [have, tab]
  dirty,        \* the prefixes changed since: [have, set]
  reader        \* the refresh under way: [busy, tab], tab as built

snapVars == <<routes, snap, dirty, reader>>

RouteTable == [RPrefix -> Route \cup {NoRoute}]
Empty == [p \in RPrefix |-> NoRoute]
NoSnap == [have |-> FALSE, tab |-> Empty]
NoDirty == [have |-> FALSE, set |-> {}]

SnapInit ==
  /\ routes = Empty /\ snap = NoSnap /\ dirty = NoDirty
  /\ reader = [busy |-> FALSE, tab |-> Empty]

-----------------------------------------------------------------------------

\* markDirtyLocked for every prefix of C.  The marks come in any order, so
\* at the limit the set may or may not overflow.
MarkDirty(C) ==
  \/ /\ C = {} \/ ~dirty.have
     /\ UNCHANGED <<snap, dirty>>
  \/ /\ C # {} /\ dirty.have /\ Cardinality(dirty.set \cup C) <= DirtyLimit
     /\ dirty' = [dirty EXCEPT !.set = @ \cup C]
     /\ UNCHANGED snap
  \/ /\ C # {} /\ dirty.have /\ Cardinality(dirty.set \cup C) >= DirtyLimit
     /\ dirty' = NoDirty /\ snap' = NoSnap

\* The writer publishes new, under the view's lock.
Publish(new) ==
  /\ routes' = new
  /\ MarkDirty({p \in RPrefix : new[p] # routes[p]})
  /\ UNCHANGED reader

\* The view stops: its table and its snapshot go.
Clear ==
  /\ routes' = Empty /\ snap' = NoSnap /\ dirty' = NoDirty
  /\ UNCHANGED reader

-----------------------------------------------------------------------------

\* The snapshot can be used as it is (one refresh at a time: the others wait).
Current == ~reader.busy /\ snap.have /\ dirty.set = {}

\* Under the read lock: the changed prefixes, or the whole table, are copied
\* and the marks start afresh.
Collect ==
  /\ ~reader.busy /\ ~Current
  /\ reader' = [busy |-> TRUE,
                tab |-> IF snap.have /\ dirty.have
                        THEN [p \in RPrefix |-> IF p \in dirty.set THEN routes[p] ELSE snap.tab[p]]
                        ELSE routes]
  /\ dirty' = [have |-> TRUE, set |-> {}]
  /\ UNCHANGED <<routes, snap>>

\* Mutant: a snapshot that the writers dropped meanwhile is kept.
StoreAlways ==
  /\ reader.busy
  /\ snap' = [have |-> TRUE, tab |-> reader.tab]
  /\ reader' = [reader EXCEPT !.busy = FALSE]
  /\ UNCHANGED <<routes, dirty>>

\* What was built is kept, unless writers passed the limit meanwhile.
Store ==
  /\ reader.busy
  /\ snap' = IF dirty.have THEN [have |-> TRUE, tab |-> reader.tab] ELSE snap
  /\ reader' = [reader EXCEPT !.busy = FALSE]
  /\ UNCHANGED <<routes, dirty>>

SnapNext == (\E new \in RouteTable : Publish(new)) \/ Clear \/ Collect \/ Store

SnapSpec == SnapInit /\ [][SnapNext]_snapVars

-----------------------------------------------------------------------------

\* The shape of the snapshot state.
SnapTypeOK ==
  /\ routes \in RouteTable
  /\ snap \in [have : BOOLEAN, tab : RouteTable]
  /\ dirty \in [have : BOOLEAN, set : SUBSET RPrefix]
  /\ reader \in [busy : BOOLEAN, tab : RouteTable]

\* A reader that takes the snapshot as it is, without the view's lock, sees
\* the routes that are published now: whatever writers did while the last
\* refresh was built is in the dirty set or has dropped the snapshot.
SnapshotCurrent == Current => snap.tab = routes

\* Why: a snapshot, and the table a refresh is building, differ from the
\* published routes only in dirty prefixes, and while there is no dirty set
\* there is no snapshot.
SnapInv ==
  /\ SnapTypeOK
  /\ snap.have => dirty.have
  /\ ~dirty.have => dirty.set = {}
  /\ reader.busy /\ dirty.have
       => \A p \in RPrefix \ dirty.set : reader.tab[p] = routes[p]
  /\ ~reader.busy /\ snap.have
       => \A p \in RPrefix \ dirty.set : snap.tab[p] = routes[p]

=============================================================================
