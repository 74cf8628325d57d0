----------------------------- MODULE AnswerOnce -----------------------------
(* What the request cache of the runner promises, without saying how: for    *)
(* every key the cache settles on one answer, an answer made for some request *)
(* with that key, and every worker that asks is either handed that answer or  *)
(* refused (its own context ended, or this attempt to get an answer failed).  *)
(* RequestCache.tla implements it.                                            *)

CONSTANTS
  Workers,   \* goroutines of the runner
  Requests,  \* the HTTP requests the scenarios make with request.cache = true
  Keys,      \* cache keys
  KeyOf,     \* [Requests -> Keys], the key computed for a request
  Bodies,    \* what can come back for a request: a response or a read error
  None

VARIABLES
  answer,    \* [Keys -> answer or None]
  asking,    \* [Workers -> request being asked or None]
  served     \* set of [req, answer]: all that was ever handed to a worker

vars == <<answer, asking, served>>

Answers == [for : Requests, body : Bodies]

TypeOK ==
  /\ answer \in [Keys -> Answers \cup {None}]
  /\ asking \in [Workers -> Requests \cup {None}]
  /\ served \subseteq [req : Requests, answer : Answers]

Init ==
  /\ answer = [k \in Keys |-> None]
  /\ asking = [w \in Workers |-> None]
  /\ served = {}

Ask(w, r) ==
  /\ asking[w] = None
  /\ asking' = [asking EXCEPT ![w] = r]
  /\ UNCHANGED <<answer, served>>

(* A key is settled at most once, with an answer made for one of its requests. *)
Settle(k, a) ==
  /\ answer[k] = None
  /\ KeyOf[a.for] = k
  /\ answer' = [answer EXCEPT ![k] = a]
  /\ UNCHANGED <<asking, served>>

Give(w) ==
  /\ asking[w] # None
  /\ answer[KeyOf[asking[w]]] # None
  /\ served' = served \cup {[req |-> asking[w], answer |-> answer[KeyOf[asking[w]]]]}
  /\ asking' = [asking EXCEPT ![w] = None]
  /\ UNCHANGED answer

Refuse(w) ==
  /\ asking[w] # None
  /\ asking' = [asking EXCEPT ![w] = None]
  /\ UNCHANGED <<answer, served>>

Reply(w) == Give(w) \/ Refuse(w)

Next ==
  \/ \E w \in Workers, r \in Requests : Ask(w, r)
  \/ \E k \in Keys, a \in Answers : Settle(k, a)
  \/ \E w \in Workers : Reply(w)

Fairness == \A w \in Workers : WF_vars(Reply(w))

Spec == Init /\ [][Next]_vars /\ Fairness
=============================================================================
