--------------------------- MODULE DependencyOrder --------------------------
(***************************************************************************)
(* resolve_bring_up_order: the depth-first search over depends_on that     *)
(* lists a service and everything it needs, dependencies first.  The call  *)
(* stack of visit_dependency is `path`; `next` is how far the loop over    *)
(* the dependencies of a service has come.  The set `stack` of the code is *)
(* Range(path), its set `visited` is Range(ordered).                       *)
(***************************************************************************)
EXTENDS ServiceConfig, Functions, FiniteSets

VARIABLES
  config,   \* the configuration
  goal,     \* the service asked for
  path,     \* the services whose dependencies are being visited
  next,     \* for each of them, the dependency that is visited next
  ordered,  \* the services visited so far
  verdict   \* how the search ended, or "pending"

searchVars == <<path, next, ordered, verdict>>
orderVars == <<config, goal, searchVars>>

Verdict == {"pending", "ok", "cyclic", "missing"}

OrderTypeOK ==
  /\ config \in Config
  /\ goal \in Name
  /\ path \in Seq(Name)
  /\ next \in [Name -> Nat \ {0}]
  /\ ordered \in Seq(Name)
  /\ verdict \in Verdict

DependsOn(n) == config[n].depends_on
Top == path[Len(path)]

\* The argument of the next call of visit_dependency.
Visiting == IF path = <<>> THEN goal ELSE DependsOn(Top)[next[Top]]

\* There is one: the search begins, or the loop of the top is not over.
Calls ==
  /\ verdict = "pending"
  /\ path # <<>> => next[Top] <= Len(DependsOn(Top))

\* Visited before.
Skip ==
  /\ Calls
  /\ Visiting \in Range(ordered)
  /\ next' = [next EXCEPT ![Top] = @ + 1]
  /\ UNCHANGED <<path, ordered, verdict>>

\* Variant: what was visited is not remembered.
DescendAgain ==
  /\ Calls
  /\ Visiting \notin Range(path)
  /\ config[Visiting] # Absent
  /\ path' = Append(path, Visiting)
  /\ next' = [next EXCEPT ![Visiting] = 1]
  /\ UNCHANGED <<ordered, verdict>>

Descend ==
  /\ Calls
  /\ Visiting \notin Range(ordered) \cup Range(path)
  /\ config[Visiting] # Absent
  /\ path' = Append(path, Visiting)
  /\ next' = [next EXCEPT ![Visiting] = 1]
  /\ UNCHANGED <<ordered, verdict>>

\* Variant: a service that was visited counts as a cycle, too.
RejectShared ==
  /\ Calls
  /\ Visiting \in Range(path) \cup Range(ordered)
  /\ verdict' = "cyclic"
  /\ UNCHANGED <<path, next, ordered>>

RejectCycle ==
  /\ Calls
  /\ Visiting \in Range(path) \ Range(ordered)
  /\ verdict' = "cyclic"
  /\ UNCHANGED <<path, next, ordered>>

RejectMissing ==
  /\ Calls
  /\ Visiting \notin Range(ordered) \cup Range(path)
  /\ config[Visiting] = Absent
  /\ verdict' = "missing"
  /\ UNCHANGED <<path, next, ordered>>

\* Variant: the services come in the reverse order.
LeaveFirst ==
  /\ verdict = "pending"
  /\ path # <<>>
  /\ next[Top] > Len(DependsOn(Top))
  /\ path' = SubSeq(path, 1, Len(path) - 1)
  /\ ordered' = <<Top>> \o ordered
  /\ verdict' = IF Len(path) = 1 THEN "ok" ELSE "pending"
  /\ UNCHANGED next

\* All dependencies of the top were visited.
Leave ==
  /\ verdict = "pending"
  /\ path # <<>>
  /\ next[Top] > Len(DependsOn(Top))
  /\ path' = SubSeq(path, 1, Len(path) - 1)
  /\ ordered' = Append(ordered, Top)
  /\ verdict' = IF Len(path) = 1 THEN "ok" ELSE "pending"
  /\ UNCHANGED next

Search == Skip \/ Descend \/ RejectCycle \/ RejectMissing \/ Leave

\* The search starts from nothing.
Unsearched ==
  /\ path = <<>>
  /\ next = [n \in Name |-> 1]
  /\ ordered = <<>>
  /\ verdict = "pending"

OrderInit == config \in Config /\ goal \in Name /\ Unsearched

OrderSpec ==
  OrderInit /\ [][Search /\ UNCHANGED <<config, goal>>]_orderVars

----------------------------------------------------------------------------
(* Properties *)

\* The direct dependencies of a service.
Needs(n) == IF config[n] = Absent THEN {} ELSE Range(DependsOn(n))

\* Everything the goal needs: what is in every closed set that contains it.
Closure ==
  {n \in Name : \A S \in SUBSET Name :
     goal \in S /\ (\A m \in S : Needs(m) \subseteq S) => n \in S}

\* A set of services each of which needs one of the set contains a cycle.
Entangled(S) == S # {} /\ \A n \in S : Needs(n) \cap S # {}

\* The order lists everything the goal needs and nothing else, each service
\* once, and each after all of its dependencies; all of them are configured.
OrderCorrect ==
  verdict = "ok" =>
    /\ Range(ordered) = Closure
    /\ IsInjective(ordered)
    /\ \A i \in DOMAIN ordered :
         /\ config[ordered[i]] # Absent
         /\ Needs(ordered[i]) \subseteq {ordered[j] : j \in 1..(i - 1)}

\* The search fails only for a reason: what the goal needs contains a cycle,
\* or a service that is not configured; and it succeeds only without a cycle.
VerdictRight ==
  /\ verdict = "cyclic" => \E S \in SUBSET Closure : Entangled(S)
  /\ verdict = "missing" => \E n \in Closure : config[n] = Absent
  /\ verdict = "ok" => ~\E S \in SUBSET Closure : Entangled(S)

=============================================================================
