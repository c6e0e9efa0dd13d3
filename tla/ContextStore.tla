---------------------------- MODULE ContextStore ----------------------------
(***************************************************************************)
(* What the routes of /api/contexts promise: one map from ids to contexts, *)
(* on which every request takes effect at one instant between its arrival  *)
(* and its response.  No cache, no backends, no processes.  A crash may    *)
(* take the requests under way, and none of the contexts.                  *)
(***************************************************************************)
CONSTANTS Tasks, Ids, Titles, Patches, Ops, Unset, Absent,
          Crashes  \* whether the service may crash

VARIABLES contexts,  \* contexts[i]: the context with id i, or Absent
          request    \* request[t]: the request t, and its response once it took effect

vars == <<contexts, request>>

Idle == [phase |-> "idle", op |-> Absent, id |-> Absent, arg |-> Absent, res |-> Absent]

Init == /\ contexts = [i \in Ids |-> Absent]
        /\ request = [t \in Tasks |-> Idle]

Patched(c, u) == [title |-> IF u.title = Unset THEN c.title ELSE u.title,
                  done  |-> IF u.done = Unset THEN c.done ELSE u.done]

Found(c) == [kind |-> "found", body |-> c]
Plain(kind) == [kind |-> kind, body |-> Absent]
Listed == [kind |-> "listed", body |-> {i \in Ids : contexts[i] # Absent}]

(* What the request does to its context, c so far, and what it answers.    *)
After(r, c) == IF r.op = "create" THEN r.arg
               ELSE IF c = Absent \/ r.op = "get" THEN c
               ELSE IF r.op = "update" THEN Patched(c, r.arg)
               ELSE Absent
Response(r, c) == IF r.op = "create" THEN Found(r.arg)
                  ELSE IF c = Absent THEN Plain("none")
                  ELSE IF r.op = "delete" THEN Plain("removed")
                  ELSE Found(After(r, c))

Requests == [op : Ops \intersect {"create"}, id : {i \in Ids : contexts[i] = Absent},
             arg : [title : Titles, done : {FALSE}]]
              \union [op : Ops \intersect {"get", "delete"}, id : Ids, arg : {Absent}]
              \union [op : Ops \intersect {"update"}, id : Ids, arg : Patches]
              \union [op : Ops \intersect {"list"}, id : {Absent}, arg : {Absent}]

Pending(r) == [phase |-> "pending", op |-> r.op, id |-> r.id, arg |-> r.arg, res |-> Absent]
Settled(r, res) == [phase |-> "settled", op |-> r.op, id |-> r.id, arg |-> Absent, res |-> res]

(* A request takes effect and its response is settled.                     *)
TakeEffect(t, r) ==
  \/ /\ r.op # "list"
     /\ contexts' = [contexts EXCEPT ![r.id] = After(r, @)]
     /\ request' = [request EXCEPT ![t] = Settled(r, Response(r, contexts[r.id]))]
  \/ /\ r.op = "list"
     /\ UNCHANGED contexts
     /\ request' = [request EXCEPT ![t] = Settled(r, Listed)]

(* It may do so on arrival, where nothing has to be waited for.            *)
Arrive(t) ==
  /\ request[t].phase = "idle"
  /\ \E r \in Requests :
       \/ /\ request' = [request EXCEPT ![t] = Pending(r)]
          /\ UNCHANGED contexts
       \/ TakeEffect(t, r)

Perform(t) == /\ request[t].phase = "pending"
              /\ TakeEffect(t, request[t])

Return(t) == /\ request[t].phase = "settled"
             /\ request' = [request EXCEPT ![t] = Idle]
             /\ UNCHANGED contexts

Crash == /\ Crashes
         /\ request' = [t \in Tasks |-> Idle]
         /\ UNCHANGED contexts

Next == Crash \/ \E t \in Tasks : Arrive(t) \/ Perform(t) \/ Return(t)

Spec == Init /\ [][Next]_vars
=============================================================================
