--------------------------- MODULE FragmentBuffer ---------------------------
(***************************************************************************)
(* EnvelopeFragmentBuffer: one envelope is published in several physical   *)
(* messages, which reach the buffer in any order, more than once, late,    *)
(* damaged, or posted again by another bot.  A chunk of the payload is the *)
(* pair of the payload it was cut from and its place; the digest of a      *)
(* payload stands for the payload, so that reassembly verifies exactly     *)
(* when the chunks in order are those of the digest.                       *)
(***************************************************************************)
EXTENDS Naturals, FiniteSets

CONSTANTS
  Envelopes,  \* envelope ids, drawn afresh for every envelope built
  Parts,      \* fragments the sender cuts each envelope into
  Bots,       \* the Discord authors whose messages the buffer is shown
  Ttl,        \* evictStale drops a set older than this, in clock ticks
  MaxSets     \* MAX_PENDING_SETS

VARIABLES
  sets,   \* the open set of each envelope id, or NoSet
  age,    \* ticks since the set's first fragment was seen
  answer  \* what the last ingest returned

vars == <<sets, age, answer>>

Indices == 0 .. Parts - 1
Chunk(e, i) == <<e, i>>
Garbled == <<"garbled">>
Missing == <<"missing">>
Chunks == {Chunk(e, i) : e \in Envelopes, i \in Indices} \cup {Garbled}

\* What decodeEnvelopeFragment reads off a physical message.
Fragments == [id : Envelopes, index : Indices, total : 1 .. Parts, author : Bots,
              digest : Envelopes, chunk : Chunks]

\* buildEnvelopeWireFragments, and the author who posts the result.
Built(e, i, b) ==
  [id |-> e, index |-> i, total |-> Parts, author |-> b, digest |-> e, chunk |-> Chunk(e, i)]

\* A message that carries a fragment as built, or one that was damaged under way.
Wire ==
  LET built == {Built(e, i, b) : e \in Envelopes, i \in Indices, b \in Bots}
  IN  built \cup {[f EXCEPT !.chunk = Garbled] : f \in built}

NoSet == [total |-> 0]
Sets == [total : 1 .. Parts, digest : Envelopes, author : Bots,
         chunks : [Indices -> Chunks \cup {Missing}], whole : BOOLEAN]

TypeOK ==
  /\ sets \in [Envelopes -> Sets \cup {NoSet}]
  /\ age \in [Envelopes -> 0 .. Ttl + 1]
  /\ answer \in {"none", "PENDING", "COMPLETE", "INVALID"}
  /\ Cardinality({e \in Envelopes : sets[e] # NoSet}) <= MaxSets

Init ==
  /\ sets = [e \in Envelopes |-> NoSet] /\ age = [e \in Envelopes |-> 0]
  /\ answer = "none"

-----------------------------------------------------------------------------
\* evictStale, which opens every ingest.
Fresh(e) == sets[e] # NoSet /\ age[e] <= Ttl
Evicted(e) == IF Fresh(e) THEN sets[e] ELSE NoSet

\* The guard against contamination: one total, one digest, one author.
Agrees(f) ==
  /\ sets[f.id].total = f.total /\ sets[f.id].digest = f.digest
  /\ sets[f.id].author = f.author

Opened(f) == [total |-> f.total, digest |-> f.digest, author |-> f.author,
              chunks |-> [i \in Indices |-> Missing], whole |-> FALSE]

\* A later copy of a chunk replaces the earlier one.
With(set, f) == [set EXCEPT !.chunks[f.index] = f.chunk]
Filled(set) == \A i \in 0 .. set.total - 1 : set.chunks[i] # Missing

FilledIsVerified(set) == Filled(set)

\* finalizeEnvelopeFromFragments: the digest of the ordered chunks.
Verified(set) ==
  set.total = Parts /\ \A i \in Indices : set.chunks[i] = Chunk(set.digest, i)

\* The set of the fragment afterwards, and the answer.
Becomes(e, set, a) ==
  /\ answer' = a
  /\ sets' = [x \in Envelopes |-> IF x = e THEN set ELSE Evicted(x)]
  /\ age' = [x \in Envelopes |-> IF x = e /\ ~Fresh(e) THEN 0 ELSE age[x]]

Added(f, set) ==
  IF ~Filled(set) THEN Becomes(f.id, set, "PENDING")
  ELSE IF Verified(set) THEN Becomes(f.id, [set EXCEPT !.whole = TRUE], "COMPLETE")
  ELSE Becomes(f.id, NoSet, "INVALID")

HasRoom == Cardinality({e \in Envelopes : Fresh(e)}) < MaxSets

Refused(f) == /\ Fresh(f.id) /\ ~Agrees(f)
              /\ Becomes(f.id, NoSet, "INVALID")

Reserved(f) == /\ Fresh(f.id) /\ Agrees(f) /\ sets[f.id].whole
               /\ Becomes(f.id, sets[f.id], "COMPLETE")
Collected(f) == /\ Fresh(f.id) /\ Agrees(f) /\ ~sets[f.id].whole
                /\ Added(f, With(sets[f.id], f))
Begun(f) == /\ ~Fresh(f.id) /\ HasRoom
            /\ Added(f, With(Opened(f), f))
Full(f) == /\ ~Fresh(f.id) /\ ~HasRoom
           /\ Becomes(f.id, NoSet, "INVALID")

Ingest(f) == Refused(f) \/ Reserved(f) \/ Collected(f) \/ Begun(f) \/ Full(f)

\* Time passes; beyond the time to live it makes no difference how much.
Tick ==
  /\ age' = [e \in Envelopes |-> IF age[e] <= Ttl THEN age[e] + 1 ELSE age[e]]
  /\ UNCHANGED <<sets, answer>>

Next == Tick \/ \E f \in Wire : Ingest(f)
Spec == Init /\ [][Next]_vars

-----------------------------------------------------------------------------
\* An envelope is admitted whole or not at all, and the gateway and the Worker,
\* who both show the buffer the same message, get the same one: a set that
\* answers COMPLETE holds every chunk of the one payload its digest names, in
\* its place, whatever came twice, late or damaged; and it goes only by age or
\* because a fragment contradicted it.
KeepsWhole ==
  \A e \in Envelopes : sets[e] # NoSet /\ sets[e].whole =>
    /\ \A i \in Indices : sets[e].chunks[i] = Chunk(e, i)
    /\ sets'[e] # sets[e] => age[e] > Ttl \/ (answer' = "INVALID" /\ sets'[e] = NoSet)
WholeStaysWhole == [][KeepsWhole]_vars
=============================================================================
