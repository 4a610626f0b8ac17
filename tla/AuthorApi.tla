----------------------------- MODULE AuthorApi -----------------------------
(***************************************************************************)
(* What a client of the author API can rely on, with no sessions, flushes  *)
(* or caches: a call is answered at most once, and its write takes effect  *)
(* at most once and as a whole.  AuthorService implements this.            *)
(***************************************************************************)
CONSTANTS Calls, Names, None, Ids,
          Op,         \* Op[c]: create, update, delete, or a read
          Via         \* Via[c]: http or ws

VARIABLES name,       \* the authors: id -> name, None when there is none
          used,       \* the ids that authors have had
          committed,  \* the calls whose write has taken effect
          outcome     \* what each call has been answered

api == <<name, used, committed, outcome>>

Authors == {i \in Ids : name[i] # None}

Init == /\ name \in [Ids -> Names \cup {None}]
        /\ used = Authors
        /\ committed = {}
        /\ outcome = [c \in Calls |-> "open"]

\* A create makes one author, under an id that none has had before.
Create(c) == /\ Op[c] = "create"
             /\ \E i \in Ids \ used, n \in Names :
                    /\ name' = [name EXCEPT ![i] = n]
                    /\ used' = used \cup {i}

\* An update and a delete change one author that is there.
Update(c) == /\ Op[c] = "update"
             /\ \E i \in Authors, n \in Names : name' = [name EXCEPT ![i] = n]
             /\ UNCHANGED used

Delete(c) == /\ Op[c] = "delete"
             /\ \E i \in Authors : name' = [name EXCEPT ![i] = None]
             /\ UNCHANGED used

\* No effect follows an answer over a WebSocket, nor over HTTP one that is not
\* "ok"; an "ok" over HTTP comes before the effect, if there is any.
Write(c) == /\ c \notin committed
            /\ outcome[c] = "open" \/ (outcome[c] = "ok" /\ Via[c] = "http")
            /\ Create(c) \/ Update(c) \/ Delete(c)
            /\ committed' = committed \cup {c}
            /\ UNCHANGED outcome

\* One answer to a call.  "refused" comes without an effect; so does "failed"
\* over HTTP, while over a WebSocket it leaves open whether there has been one;
\* an "ok" to a WebSocket create comes after its effect.
Answer(c, r) == /\ outcome[c] = "open"
                /\ r = "refused" => c \notin committed
                /\ r = "failed" /\ Via[c] = "http" => c \notin committed
                /\ r = "ok" /\ Via[c] = "ws" /\ Op[c] = "create" => c \in committed
                /\ outcome' = [outcome EXCEPT ![c] = r]
                /\ UNCHANGED <<name, used, committed>>

Answers == {"ok", "refused", "failed"}

Next == \E c \in Calls : Write(c) \/ \E r \in Answers : Answer(c, r)

Spec == Init /\ [][Next]_api
=============================================================================
