------------------------------- MODULE Objects -------------------------------
(***************************************************************************)
(* What one task of motif_1 writes and how it recognises it: run_motif's   *)
(* two loops with the sample objects of sample/ and the generators of      *)
(* prng/.  An object is named after the number its generator shows, is     *)
(* generated from there, and is read back and compared with what a         *)
(* generator seeded with its name generates.  Module Motif has what        *)
(* happens when storage fails; here files are changed instead.             *)
(***************************************************************************)
EXTENDS Prng, SequencesExt

CONSTANTS
  WORD,         \* sizeof(uint32_t): 4
  LEN_MAX,      \* SAMPLE_LEN_MAX: 1536
  WriteCount,   \* object_write_count
  ReadCount,    \* object_read_count
  Alterations   \* at most this many files are changed by somebody else

ASSUME ObjectsAssumption ==
  /\ WORD \in Nat /\ WORD > 1 /\ W % WORD = 0
  /\ LEN_MAX \in Nat /\ LEN_MAX > 0 /\ LEN_MAX % (2 * WORD) = 0
  /\ WriteCount \in Nat \ {0}
  /\ ReadCount \in Nat
  /\ Alterations \in Nat

VARIABLES
  seed,         \* map->seed
  phase,        \* the loop the task is in
  index,        \* its counter
  P,            \* the task's generator
  S,            \* the task's sample: its len first bytes of data
  obj_id,       \* the names of the objects written
  store,        \* the task's files: bytes by name
  accepted,     \* what sample_valid last said
  written,      \* history: the objects written
  alterations   \* history: the changes made to files

vars == <<seed, phase, index, P, S, obj_id, store, accepted, written, alterations>>

-----------------------------------------------------------------------------
(* Sample objects (sample/sample_debug.c). *)

LEN_MIN == LEN_MAX \div 2

\* Mutant: the shortest length is added to any remainder.
LenCalcTooLong(w) == (w % LEN_MAX) + LEN_MIN

\* sample_debug_len_calc, from the word drawn.
LenCalc(w) == (w % (LEN_MAX - LEN_MIN)) + LEN_MIN

BYTE == Pow(2, W \div WORD)
Bytes == 0 .. BYTE - 1

\* The k-th byte of a word in memory.
ByteOf(w, k) == (w \div Pow(BYTE, k)) % BYTE

\* The draws a sample of a length takes for its data: a last word for a
\* remainder of bytes.
DataWords(len) == len \div WORD + (IF len % WORD = 0 THEN 0 ELSE 1)

\* sample_debug_init: a length, then the words; and the generator after them.
SampleInit(gen) ==
  LET len == LenCalc(PrngNext(gen))
      drawn == Draws(PrngAdvance(gen), DataWords(len))
  IN [sample |-> [b \in 1 .. len |-> ByteOf(drawn.words[(b - 1) \div WORD + 1],
                                            (b - 1) % WORD)],
      gen |-> drawn.gen]

\* The first n bytes of the i-th word of a sample's data are those of w.
WordMatches(sample, i, w, n) ==
  \A k \in 0 .. n - 1 : sample[(i - 1) * WORD + k + 1] = ByteOf(w, k)

\* Mutant: the bytes after the last whole word are not compared.
RemainIgnored(sample, words) == TRUE

\* The bytes after the last whole word, if there are any.
RemainMatches(sample, words) ==
  Len(sample) % WORD # 0 =>
    WordMatches(sample, Len(words), words[Len(words)], Len(sample) % WORD)

\* sample_debug_valid: the draws are made in the order of sample_debug_init.
SampleValid(sample, gen) ==
  LET len == LenCalc(PrngNext(gen))
      words == Draws(PrngAdvance(gen), DataWords(len)).words
  IN /\ Len(sample) = len
     /\ \A i \in 1 .. len \div WORD : WordMatches(sample, i, words[i], WORD)
     /\ RemainMatches(sample, words)

-----------------------------------------------------------------------------
(* The task, from the end of the barrier. *)

\* prng_create with the task's seed, and sample_create, which draws an object.
Init ==
  /\ seed \in Words
  /\ phase = "write"
  /\ index = 0
  /\ LET created == SampleInit(PrngInit(seed))
     IN S = created.sample /\ P = created.gen
  /\ obj_id = <<>>
  /\ store = [id \in {} |-> <<>>]
  /\ accepted = TRUE
  /\ written = <<>>
  /\ alterations = 0

\* O_CREAT|O_EXCL: a name that is taken keeps the file that has it.
StorageWrite(id, bytes) ==
  store' = IF id \in DOMAIN store THEN store
           ELSE [n \in DOMAIN store \cup {id} |-> IF n = id THEN bytes ELSE store[n]]

\* Mutant: the generator is seeded again for each object.
WriteSeedsAgain ==
  LET made == SampleInit(PrngInit(seed))
  IN /\ phase = "write" /\ index < WriteCount
     /\ obj_id' = Append(obj_id, PrngPeek(PrngInit(seed)))
     /\ S' = made.sample /\ P' = made.gen
     /\ StorageWrite(PrngPeek(PrngInit(seed)), made.sample)
     /\ written' = Append(written, made.sample)
     /\ index' = index + 1
     /\ UNCHANGED <<seed, phase, accepted, alterations>>

\* One round of the write loop.
Write ==
  LET made == SampleInit(P)
  IN /\ phase = "write" /\ index < WriteCount
     /\ obj_id' = Append(obj_id, PrngPeek(P))
     /\ S' = made.sample /\ P' = made.gen
     /\ StorageWrite(PrngPeek(P), made.sample)
     /\ written' = Append(written, made.sample)
     /\ index' = index + 1
     /\ UNCHANGED <<seed, phase, accepted, alterations>>

\* Between the loops the generator goes back to the seed.
WritesDone ==
  /\ phase = "write" /\ index = WriteCount
  /\ phase' = "read"
  /\ index' = 0
  /\ P' = PrngInit(seed)
  /\ UNCHANGED <<seed, S, obj_id, store, accepted, written, alterations>>

\* The object, from 1, that a round of the read loop reads.
ObjIdx(i) == (i % WriteCount) + 1

\* One round of the read loop.  The draws of sample_valid are left out of P:
\* the next round seeds it before it draws.  A file that is longer than any
\* sample fails an assertion of the driver (in Motif the task crashes).
Read ==
  LET id == obj_id[ObjIdx(index)]
  IN /\ phase = "read" /\ index < ReadCount
     /\ Len(store[id]) <= LEN_MAX
     /\ P' = PrngInit(id)
     /\ S' = store[id]
     /\ accepted' = SampleValid(S', P')
     /\ index' = index + 1
     /\ UNCHANGED <<seed, phase, obj_id, store, written, alterations>>

\* What a file can turn into: a byte changed, cut short, grown, or overwritten
\* with another of the task's objects.
Altered(bytes) ==
  {[bytes EXCEPT ![b] = (@ + 1) % BYTE] : b \in DOMAIN bytes}
    \cup {SubSeq(bytes, 1, Len(bytes) - 1), Append(bytes, 0)}
    \cup ToSet(written)

Alter ==
  /\ phase = "read" /\ index < ReadCount
  /\ alterations < Alterations
  /\ alterations' = alterations + 1
  /\ \E id \in DOMAIN store : \E bytes \in Altered(store[id]) :
       store' = [store EXCEPT ![id] = bytes]
  /\ UNCHANGED <<seed, phase, index, P, S, obj_id, accepted, written>>

Next == Write \/ WritesDone \/ Read \/ Alter

Spec == Init /\ [][Next]_vars

-----------------------------------------------------------------------------
(* Properties. *)

\* Every variable keeps its type; what sample_init writes fits the buffer that
\* sample_create allocates once (sample_debug_init's last word).
TypeOK ==
  /\ seed \in Words
  /\ phase \in {"write", "read"}
  /\ index \in Nat
  /\ \A i \in DOMAIN obj_id : obj_id[i] \in Words
  /\ DOMAIN store \subseteq Words
  /\ \A b \in DOMAIN S : S[b] \in Bytes
  /\ Len(S) <= LEN_MAX /\ DataWords(Len(S)) * WORD <= LEN_MAX
  /\ accepted \in BOOLEAN

\* What is read back is accepted exactly when it is, to the last byte, the
\* object that was written under that name, whatever became of the file and
\* however often it is read (sample_valid, run_motif).
ReadJudgedRight ==
  phase = "read" /\ index > 0 =>
    (accepted <=> S = written[ObjIdx(index - 1)])

\* A task's objects have different names, so that none is refused as existing:
\* every object generated is stored in a file of its own (prng_peek,
\* storage_write), unless the counter goes through all its words.
EveryObjectStored ==
  /\ IsInjective(obj_id)
  /\ alterations = 0 => \A i \in DOMAIN written : store[obj_id[i]] = written[i]

-----------------------------------------------------------------------------
(* What a comment says, and XORSHIFT does not do. *)

\* prng_peek gives "the next pseudo-random number": an object read back as it
\* was written is found valid under either generator.
UnalteredAccepted ==
  phase = "read" /\ index > 0 =>
    (S = written[ObjIdx(index - 1)] => accepted)
=============================================================================
