------------------------------ MODULE MCServices ------------------------------
(***************************************************************************)
(* The four services beside the gateway, checked in one run: the chat log, *)
(* the word completion, the hash ring and the tokens share no state, so a  *)
(* behaviour is one of one of them, chosen at the start.                   *)
(***************************************************************************)
EXTENDS ChatBatch, T9Predict, HashRing, AuthTokens, TLC

CONSTANTS ra, rb, k, comma, q, ann, bob, c1, c2, g1, g2, g3, room

VARIABLE part

Parts == {"log", "t9", "ring", "tokens"}
vars == <<part, batchVars, t9Vars, ringVars, tokenVars>>

\* The second word starts the first; k and the comma are ra and rb on the
\* other layout, the question mark is where the comma is.
MCRunes == {ra, rb, k, comma, q}
MCDictionary == <<<<ra, rb, ra>>, <<ra, rb>>, <<ra, ra, rb>>, <<rb, ra, rb>>, <<rb, ra, rb, rb>>>>
MCLayoutTable == (k :> ra) @@ (comma :> rb) @@ (q :> comma)
MCTranslitEn == (k :> ra) @@ (comma :> rb)
MCTranslitRu == (ra :> k) @@ (rb :> comma)

MCInputs == {"", "david@clearway.ru", "konstantin@clearway.ru", "admin123", "user123"}

\* The components that are not looked at stay in one of their initial states.
\* A ring depends on the set of points a gateway has, so its virtual nodes
\* are taken in order.
Init ==
  /\ part \in Parts
  /\ BatchInit /\ (part # "log" => host = "history")
  /\ T9Init
  /\ RingInit /\ \A g \in Gateways : vHash[<<g, 0>>] <= vHash[<<g, 1>>]
  /\ (part # "ring" => \A x \in DOMAIN vHash : vHash[x] = 0)
  /\ (part # "ring" => \A r \in Rooms : roomHash[r] = 0)
  /\ TokenInit /\ (part # "tokens" => skew = 0)

InLog == part = "log" /\ UNCHANGED <<part, t9Vars, ringVars, tokenVars>>
InT9 == part = "t9" /\ UNCHANGED <<part, batchVars, ringVars, tokenVars>>
InRing == part = "ring" /\ UNCHANGED <<part, batchVars, t9Vars, tokenVars>>
InTokens == part = "tokens" /\ UNCHANGED <<part, batchVars, t9Vars, ringVars>>

Next == \/ InLog /\ BatchNext
        \/ InT9 /\ T9Next
        \/ InRing /\ RingNext
        \/ InTokens /\ TokenNext

\* BatchFairness, for the behaviours it is about.
Fairness == WF_vars(InLog /\ (BatchJanitor \/ ChatBatchWorker))

Spec == Init /\ [][Next]_vars /\ Fairness
=============================================================================
