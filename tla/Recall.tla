------------------------------- MODULE Recall -------------------------------
(***************************************************************************)
(* The memories a recall answers (recall in core/src/memory/memory-service.ts,     *)
(* retrieve in core/src/search/retrieval.ts) and the context built from    *)
(* it (core/src/search/context-builder.ts).  Both trim texts to a token    *)
(* budget with the loop of tokenBudgetTrim.                                *)
(*                                                                         *)
(* A text is a model value with a length, and an episode a text and the    *)
(* session it was told in.                                                 *)
(***************************************************************************)
EXTENDS Naturals, Sequences, SequencesExt, FiniteSets, FiniteSetsExt

CONSTANTS
  Texts,         \* contents of episodes
  Length,        \* of a text, in characters
  Mentions,      \* the texts that hold a query whole
  Shares,        \* the texts that hold a token of it
  Calls,         \* the arguments of recall, and the episodes the store answered
  MaxTokens,     \* budget of a recall (2000 in the code)
  ContextTokens  \* budget of the context

Read == [text : Texts, session : STRING]

ASSUME RecallConstants ==
  /\ Length \in [Texts -> Nat]
  /\ MaxTokens \in Nat /\ ContextTokens \in Nat
  /\ \A c \in Calls :
       /\ c.strategy \in {"recent", "lexical", "entity"}
       /\ c.episodes \in Seq(Read)

VARIABLES
  call,     \* query, session, episodes the store answered
  stage,    \* "retrieve", "context" or "done"
  texts,    \* what tokenBudgetTrim is given
  cursor,   \* the text it is at
  kept,     \* indices of the texts it kept
  used,     \* tokens of those
  memories  \* indices into the episodes read: the answer

recallVars == <<call, stage, texts, cursor, kept, used, memories>>

\* A filter keeps the order: what is left of the episodes by their indices.
Ascending(S) == CHOOSE s \in SetToSeqs(S) : IsSorted(s, LAMBDA i, j : i < j)

\* sessionEpisodes: the episodes of the session asked for, all without one.
InSession(c) ==
  Ascending({i \in DOMAIN c.episodes : c.session = "" \/ c.episodes[i].session = c.session})

\* The filter of the strategy inferStrategy chose.
Passes(c, text) ==
  CASE c.strategy = "recent" -> TRUE
    [] c.strategy = "lexical" -> text \in Shares[c.query]
    [] c.strategy = "entity" -> text \in Mentions[c.query]

Candidates(c) == Ascending({i \in Range(InSession(c)) : Passes(c, c.episodes[i].text)})

RecallStart(calls) ==
  /\ call \in calls
  /\ stage = "retrieve"
  /\ texts = [i \in DOMAIN Candidates(call) |-> call.episodes[Candidates(call)[i]].text]
  /\ cursor = 1
  /\ kept = {}
  /\ used = 0
  /\ memories = <<>>

RecallInit == RecallStart(Calls)

Budget == IF stage = "retrieve" THEN MaxTokens ELSE ContextTokens

\* Math.max(1, Math.ceil(text.length / 4))
Estimate(text) == IF Length[text] = 0 THEN 1 ELSE (Length[text] + 3) \div 4

\* Slip: a text is held against the whole budget.
SlipForgetsUsed(text) == Estimate(text) <= Budget

Fits(text) == used + Estimate(text) <= Budget

Trimming == stage # "done" /\ cursor <= Len(texts)

Keep ==
  /\ Trimming
  /\ Fits(texts[cursor])
  /\ kept' = kept \union {cursor}
  /\ used' = used + Estimate(texts[cursor])
  /\ cursor' = cursor + 1
  /\ UNCHANGED <<call, stage, texts, memories>>

Omit ==
  /\ Trimming
  /\ ~Fits(texts[cursor])
  /\ cursor' = cursor + 1
  /\ UNCHANGED <<call, stage, texts, kept, used, memories>>

\* Episodes are kept by content, and all of them when none was.
Ordered(c) ==
  LET contents == {texts[i] : i \in kept}
      ordered == {i \in Range(Candidates(c)) : c.episodes[i].text \in contents}
  IN IF ordered = {} THEN InSession(c) ELSE Ascending(ordered)

AnswerRecall ==
  /\ stage = "retrieve"
  /\ ~Trimming
  /\ memories' = Ordered(call)
  /\ stage' = "context"
  /\ texts' = [i \in DOMAIN memories' |-> call.episodes[memories'[i]].text]
  /\ cursor' = 1
  /\ kept' = {}
  /\ used' = 0
  /\ UNCHANGED call

BuildContext ==
  /\ stage = "context"
  /\ ~Trimming
  /\ stage' = "done"
  /\ UNCHANGED <<call, texts, cursor, kept, used, memories>>

RecallNext == Keep \/ Omit \/ AnswerRecall \/ BuildContext

RecallSpec == RecallInit /\ [][RecallNext]_recallVars

(***************************************************************************)
(* Properties.                                                             *)
(***************************************************************************)
Cost(S, ts) == MapThenSumSet(LAMBDA i : Estimate(ts[i]), S)

\* K is what a budget leaves of ts: a text is kept when it fits beside the
\* kept ones before it.
Trimmed(K, ts, budget) ==
  \A i \in DOMAIN ts : i \in K <=> Cost(K \cap 1..(i - 1), ts) + Estimate(ts[i]) <= budget

TextsOf(c, s) == [i \in DOMAIN s |-> c.episodes[s[i]].text]

\* An answer holds, in the order they were read, the candidates that fit in
\* the budget and no other, except that a text twice among them is answered
\* twice for the price of one (retrieval.ts:53) and that an answer nothing
\* is left of holds every episode of the session (memory-service.ts:132).
\* The context is trimmed again, so it fits in its budget even then.
RecallFitsTheBudget ==
  stage # "retrieve" =>
    LET ts == TextsOf(call, Candidates(call))
    IN \E K \in SUBSET DOMAIN ts :
         /\ Trimmed(K, ts, MaxTokens)
         /\ IF K = {}
            THEN memories = InSession(call)
            ELSE /\ IsSorted(memories, LAMBDA i, j : i < j)
                 /\ Range(memories) =
                      {Candidates(call)[i] : i \in {j \in DOMAIN ts : \E k \in K : ts[j] = ts[k]}}
         /\ used <= ContextTokens
         /\ stage = "done" => Trimmed(kept, TextsOf(call, memories), ContextTokens)
=============================================================================
