------------------------------ MODULE T9Predict ------------------------------
(***************************************************************************)
(* Word completion in the chat: the page asks at every key (t9_predict.js, *)
(* dashboard_binder.js), cloud-routing-proxy hands the question on with a  *)
(* limit of 300 ms, and chat-history-service looks it up in its prefix     *)
(* tree after undoing a wrong keyboard layout.                             *)
(*                                                                         *)
(* A word is a sequence of runes.  A node of the tree is the path to it,   *)
(* which is also the WordValue of a node that ends a word.  The text is    *)
(* the last word in the input box; the spaces the page splits at, with     *)
(* them TrimSpace, and capital letters are left out.                       *)
(***************************************************************************)
EXTENDS Naturals, Sequences, SequencesExt

CONSTANTS Runes,
          Keyboard,      \* those the user types
          Dictionary,    \* words in the order they are inserted
          LayoutTable,   \* rune -> rune of chat_engine.go
          TranslitEn,    \* Latin -> Cyrillic of the tree, and
          TranslitRu,    \* its inverse
          Question,      \* the rune ?
          Calls,         \* questions the page can have open at a time
          MaxText        \* bound on the length of the text

ASSUME LayoutAssumption ==
  /\ Question \in Runes /\ Keyboard \subseteq Runes
  /\ LayoutTable \in [DOMAIN LayoutTable -> Runes]
  /\ DOMAIN TranslitRu = {TranslitEn[r] : r \in DOMAIN TranslitEn}
  /\ \A r \in DOMAIN TranslitEn : TranslitRu[TranslitEn[r]] = r
  /\ Dictionary \in Seq(Seq(Runes))

VARIABLES nodes, wordEnds,   \* the tree: its nodes, those with IsWord
          inserted,          \* words inserted so far
          text,              \* last word in the input box
          call,              \* the questions
          offered,           \* activeSuggestion, <<>> for ""
          raced              \* history: a key came while a question was open

tree == <<nodes, wordEnds, inserted>>
t9Vars == <<tree, text, call, offered, raced>>

Free == [stage |-> "free", word |-> <<>>, answer |-> <<>>]
Words == ToSet(Dictionary)
-----------------------------------------------------------------------------
Children(n) == {c \in nodes : Len(c) = Len(n) + 1 /\ IsPrefix(n, c)}

\* findFirstWordTail, from every node: the words it may return.  A map is
\* walked in any order, so it is one word of any child that has one.  The
\* slip does not look at the node itself.
FirstWordTailBelow ==
  LET tail[n \in nodes] ==
        IF Children(n) = {} THEN {n} ELSE UNION {tail[c] : c \in Children(n)}
  IN  tail
FirstWordTail ==
  LET tail[n \in nodes] ==
        IF n \in wordEnds THEN {n} ELSE UNION {tail[c] : c \in Children(n)}
  IN  tail

SearchTree(prefix) == IF prefix \in nodes THEN FirstWordTail[prefix] ELSE {}

NormalizeLayout(w) ==
  [i \in DOMAIN w |->
     IF w[i] \in DOMAIN TranslitEn THEN TranslitEn[w[i]]
     ELSE IF w[i] \in DOMAIN TranslitRu THEN TranslitRu[w[i]] ELSE w[i]]

\* The possible results of Search, {} when it finds nothing.
Search(prefix) ==
  IF SearchTree(prefix) # {} THEN SearchTree(prefix)
                             ELSE SearchTree(NormalizeLayout(prefix))

InterceptAndFixLayout(w) ==
  [i \in DOMAIN w |-> IF w[i] \in DOMAIN LayoutTable THEN LayoutTable[w[i]] ELSE w[i]]

\* The question mark goes only after the layout table, which has turned it
\* into a comma.
FixedPrefix(w) ==
  LET fixed == InterceptAndFixLayout(w)
      kept[k \in 0 .. Len(w)] ==
        IF k = 0 THEN <<>>
        ELSE IF fixed[k] = Question THEN kept[k - 1] ELSE Append(kept[k - 1], fixed[k])
  IN  kept[Len(w)]

QueryT9Prediction(w) == Search(FixedPrefix(w))
-----------------------------------------------------------------------------
T9Init ==
  /\ nodes = {<<>>} /\ wordEnds = {} /\ inserted = 0
  /\ text = <<>> /\ offered = <<>> /\ raced = FALSE
  /\ call = [c \in Calls |-> Free]

Insert(word) ==
  /\ nodes' = nodes \union {SubSeq(word, 1, k) : k \in 0 .. Len(word)}
  /\ wordEnds' = wordEnds \union {word}

\* The constructor fills the tree before the gRPC server starts.
BootstrapT9Dictionary ==
  /\ inserted < Len(Dictionary)
  /\ Insert(Dictionary[inserted + 1])
  /\ inserted' = inserted + 1
  /\ UNCHANGED <<text, call, offered, raced>>

\* checkT9 until its await: one letter asks nothing and clears the offer.
CheckT9(w) ==
  /\ text' = w
  /\ raced' = (raced \/ \E c \in Calls : call[c].stage # "free")
  /\ IF Len(w) < 2
     THEN offered' = <<>> /\ UNCHANGED call
     ELSE /\ \E c \in Calls :
               /\ call[c].stage = "free"
               /\ call' = [call EXCEPT ![c] = [stage |-> "asked", word |-> w, answer |-> <<>>]]
          /\ UNCHANGED offered
  /\ UNCHANGED tree

Type(r) == Len(text) < MaxText /\ CheckT9(Append(text, r))
Erase == text # <<>> /\ CheckT9(Front(text))

\* QueryT9Autocomplete answers.
Answer(c) ==
  /\ call[c].stage = "asked" /\ inserted = Len(Dictionary)
  /\ LET found == QueryT9Prediction(call[c].word)
     IN  \E a \in (IF found = {} THEN {<<>>} ELSE found) :
           call' = [call EXCEPT ![c].stage = "answered", ![c].answer = a]
  /\ UNCHANGED <<tree, text, offered, raced>>

\* The 300 ms are over, or the service cannot be reached: the proxy answers
\* with the empty string.
Expire(c) ==
  /\ call[c].stage = "asked"
  /\ call' = [call EXCEPT ![c].stage = "expired"]
  /\ UNCHANGED <<tree, text, offered, raced>>

\* checkT9 after its await: the answer is compared with the word the
\* question was asked for.  The slip keeps the old offer when there is none.
DeliverFound(c) ==
  /\ call[c].stage \in {"answered", "expired"}
  /\ offered' = IF call[c].answer # <<>> /\ IsPrefix(call[c].word, call[c].answer)
                THEN call[c].answer ELSE offered
  /\ call' = [call EXCEPT ![c] = Free]
  /\ UNCHANGED <<tree, text, raced>>
Deliver(c) ==
  /\ call[c].stage \in {"answered", "expired"}
  /\ offered' = IF call[c].answer # <<>> /\ IsPrefix(call[c].word, call[c].answer)
                THEN call[c].answer ELSE <<>>
  /\ call' = [call EXCEPT ![c] = Free]
  /\ UNCHANGED <<tree, text, raced>>

\* Tab puts the offer in place of the last word, Enter sends the line; both
\* leave an empty last word and no offer.
TabOrEnter ==
  /\ text # <<>> \/ offered # <<>>
  /\ text' = <<>> /\ offered' = <<>>
  /\ raced' = (raced \/ \E c \in Calls : call[c].stage # "free")
  /\ UNCHANGED <<tree, call>>

T9Next ==
  \/ BootstrapT9Dictionary
  \/ \E r \in Keyboard : Type(r)
  \/ Erase \/ TabOrEnter
  \/ \E c \in Calls : Answer(c) \/ Expire(c) \/ Deliver(c)

T9Spec == T9Init /\ [][T9Next]_t9Vars
-----------------------------------------------------------------------------
\* What the dictionary itself says of a prefix: the words that start with it
\* and have no other such word on the way.
Nearest(prefix) ==
  {w \in Words : /\ IsPrefix(prefix, w)
                 /\ \A v \in Words : (IsPrefix(prefix, v) /\ IsPrefix(v, w)) => v = w}

\* An answer is a nearest word for the prefix in the layout it was typed in,
\* or, if no word starts with that, in the other layout; it is empty only if
\* neither has one.  (Search over the tree, whatever was inserted in which
\* order and however a map is walked.)
AnswersFromDictionary ==
  \A c \in Calls : call[c].stage = "answered" =>
    LET p == FixedPrefix(call[c].word)
        near == IF Nearest(p) # {} THEN Nearest(p) ELSE Nearest(NormalizeLayout(p))
    IN  IF near = {} THEN call[c].answer = <<>> ELSE call[c].answer \in near

\* When every answer comes before the next key, what Tab would insert
\* continues the word in the box (activeSuggestion, checkT9).
OffersFitUnlessRaced ==
  (~ raced /\ (\A c \in Calls : call[c].stage = "free")) =>
    (offered # <<>> => IsPrefix(text, offered))
=============================================================================
