------------------------------ MODULE KVStore ------------------------------
(***************************************************************************)
(* What the Record Facade promises its callers (spec.md sections 4.5, 8):  *)
(* every get/put/delete/exists/length/truncate call of a thread takes effect on the *)
(* record store atomically, at one instant between its invocation and its  *)
(* return, and replies with what the store held at that instant; or it     *)
(* fails, with a wrapped engine error or a deadlock-exhaustion error, and  *)
(* leaves the store as it was.                                             *)
(*                                                                         *)
(* A record is abstracted to its length; NoRecord marks an absent key.     *)
(***************************************************************************)
EXTENDS Integers, FiniteSets

CONSTANTS Threads, Keys, Sizes, NoRecord, Requests

VARIABLES kv,    \* the committed contents of the record store
          busy,  \* busy[t]: thread t has a call in progress
          req,   \* req[t]: the call thread t made last
          res    \* res[t]: the reply to that call

vars == <<kv, busy, req, res>>

NoReply == [kind |-> "none", n |-> -1]

(* The request slot of a thread that has made no call yet. *)
NoRequest == [op |-> "none", key |-> CHOOSE k \in Keys : TRUE, n |-> 0, flag |-> "none"]

Present(s, k) == s[k] # NoRecord

(* The reply a call gets from the store s when it takes effect. *)
Reply(s, r) ==
  CASE r.op \in {"Get", "GetLength", "GetString"} ->
         IF Present(s, r.key) THEN [kind |-> "size", n |-> s[r.key]]
                              ELSE [kind |-> "notfound", n |-> -1]
    [] r.op = "Put" ->
         IF r.flag = "nooverwrite" /\ Present(s, r.key)
           THEN [kind |-> "keyexist", n |-> -1]
           ELSE [kind |-> "size", n |-> r.n]
    [] r.op = "Delete" ->
         [kind |-> IF Present(s, r.key) THEN "true" ELSE "false", n |-> -1]
    [] r.op = "Exists" ->
         [kind |-> IF Present(s, r.key) THEN "SUCCESS" ELSE "NOTFOUND", n |-> -1]
    [] r.op = "Truncate" ->
         [kind |-> "size", n |-> Cardinality({k \in Keys : Present(s, k)})]

(* The store after the call r takes effect on s. *)
Effect(s, r) ==
  CASE r.op = "Put" /\ ~(r.flag = "nooverwrite" /\ Present(s, r.key)) ->
         [s EXCEPT ![r.key] = r.n]
    [] r.op = "Delete" -> [s EXCEPT ![r.key] = NoRecord]
    [] r.op = "Truncate" -> [k \in Keys |-> NoRecord]
    [] OTHER -> s

Init ==
  /\ kv = [k \in Keys |-> NoRecord]
  /\ busy = [t \in Threads |-> FALSE]
  /\ req = [t \in Threads |-> NoRequest]
  /\ res = [t \in Threads |-> NoReply]

Invoke(t, r) ==
  /\ ~busy[t]
  /\ busy' = [busy EXCEPT ![t] = TRUE]
  /\ req' = [req EXCEPT ![t] = r]
  /\ res' = [res EXCEPT ![t] = NoReply]
  /\ UNCHANGED kv

Respond(t) ==
  /\ busy[t]
  /\ kv' = Effect(kv, req[t])
  /\ res' = [res EXCEPT ![t] = Reply(kv, req[t])]
  /\ busy' = [busy EXCEPT ![t] = FALSE]
  /\ UNCHANGED req

Fail(t) ==
  /\ busy[t]
  /\ \E e \in {"error", "deadlock"} : res' = [res EXCEPT ![t] = [kind |-> e, n |-> -1]]
  /\ busy' = [busy EXCEPT ![t] = FALSE]
  /\ UNCHANGED <<kv, req>>

Next == \E t \in Threads : \/ \E r \in Requests : Invoke(t, r)
                           \/ Respond(t)
                           \/ Fail(t)

Spec == Init /\ [][Next]_vars
=============================================================================
