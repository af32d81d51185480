------------------------------ MODULE RefStore ------------------------------
(***************************************************************************)
(* What a hosted Git repository promises to the clients that push to it,   *)
(* without packs, manifests, pointers or object storage.  A push names, for *)
(* some branches, the commit it believes they hold (old) and the commit    *)
(* they shall hold (new).  Either all its branches move in one step, from  *)
(* the commits it named, or none does.  A push that was answered "ok" has  *)
(* taken effect; one that was refused has not and never will; after an     *)
(* error the client cannot tell, and the push may even take effect later.  *)
(***************************************************************************)
CONSTANTS Push, Repo, RepoOf, Branch, Commit, NoCommit

VARIABLES
  refs,      \* the published commit of each branch of each repository
  request,   \* what each push asked for
  applied,   \* the pushes that took effect
  answer     \* what each client was told

vars == <<refs, request, applied, answer>>

RefMap == [Branch -> Commit \cup {NoCommit}]
NoRefs == [b \in Branch |-> NoCommit]
Request == [old : RefMap, new : RefMap, named : SUBSET Branch]
NoRequest == [old |-> NoRefs, new |-> NoRefs, named |-> {}]

Init ==
  /\ refs \in [Repo -> RefMap]
  /\ request = [p \in Push |-> NoRequest]
  /\ applied = {}
  /\ answer = [p \in Push |-> "none"]

\* The request is a choice of the client; it is fixed when the push arrives.
Ask(p) ==
  /\ request[p] = NoRequest
  /\ answer[p] = "none"
  /\ request'[p] \in Request
  /\ request' = [request EXCEPT ![p] = request'[p]]

Submit(p) ==
  /\ Ask(p)
  /\ UNCHANGED <<refs, applied, answer>>

\* The branches the push names move together, from the commits it expected.
Apply(p) ==
  LET now == refs[RepoOf[p]] req == request[p] IN
  /\ p \notin applied
  /\ req.named # {}
  /\ answer[p] \in {"none", "error"}
  /\ \A b \in req.named : now[b] = req.old[b]
  /\ refs' = [refs EXCEPT ![RepoOf[p]] =
                [b \in Branch |-> IF b \in req.named THEN req.new[b] ELSE now[b]]]
  /\ applied' = applied \cup {p}
  /\ UNCHANGED <<request, answer>>

Answer(p, reply) ==
  /\ answer[p] = "none"
  /\ reply = "ok" => p \in applied
  /\ reply = "refused" => p \notin applied
  /\ answer' = [answer EXCEPT ![p] = reply]
  /\ UNCHANGED <<refs, request, applied>>

\* A push refused on arrival: it is submitted and answered in one step.
Refuse(p) ==
  /\ Ask(p)
  /\ answer' = [answer EXCEPT ![p] = "refused"]
  /\ UNCHANGED <<refs, applied>>

Next ==
  \E p \in Push :
    \/ Submit(p)
    \/ Apply(p)
    \/ \E reply \in {"ok", "refused", "error"} : Answer(p, reply)
    \/ Refuse(p)

Spec == Init /\ [][Next]_vars
=============================================================================
