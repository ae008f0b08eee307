------------------------------- MODULE FixParser -------------------------------
(***************************************************************************)
(* FIXParser.feed of pyfix/FIXParser.py: messages out of a stream of       *)
(* bytes that arrives in chunks of any size.                               *)
(*                                                                         *)
(* A field is two bytes long: the first tells its tag, the second stands   *)
(* for its value and the SOH.  A chunk may end between them.  What the     *)
(* parser keeps is a stretch of the stream, so it is given by where it     *)
(* begins: buf is byte bufStart + 1 to the last one fed, triplets is field *)
(* first to the last one before bufStart.                                  *)
(***************************************************************************)
EXTENDS Integers, Sequences, FiniteSets, FiniteSetsExt

CONSTANTS
  Streams,   \* the streams of fields that may arrive
  MinSize    \* min_size: the bytes of a message whose mandatory values are empty

(* "pre": BeginString, 8=FIX...  "type": MsgType.  "sum": CheckSum.        *)
(* "ten": any other field whose text contains "10=".  "bad": a field       *)
(* without an equals sign.                                                 *)
Field == {"pre", "type", "body", "ten", "sum", "bad"}
FieldSize == 2

ASSUME StreamsAssumption == Streams \subseteq Seq(Field)
ASSUME MinSizeAssumption == MinSize \in 0..(3 * FieldSize - 1)

VARIABLES
  stream,     \* the fields on their way
  fed,        \* bytes of them the parser has been fed
  bufStart,   \* where buf begins
  first,      \* the field triplets begins with
  bytes,      \* bytes_in_buffer
  out,        \* the messages given to the callback, as field positions
  discarded,  \* bytes given to on_discard
  raised      \* feed has raised ParseException

vars == <<stream, fed, bufStart, first, bytes, out, discarded, raised>>

-----------------------------------------------------------------------------
Whole(n) == n \div FieldSize

(* checksum(): the bytes in triplets and in buf.                           *)
Checksum == (Whole(bufStart) - first + 1) * FieldSize + (fed - bufStart)

(* "10=" in buf, when buf ends with byte n: the first byte of a field is   *)
(* enough.                                                                 *)
SawEnd(n) == \E i \in (Whole(bufStart) + 1)..Whole(n + 1) : stream[i] \in {"sum", "ten"}

(* The fields a..k once the leading ones are discarded: up to the first    *)
(* that starts with 8=FIX.                                                 *)
DiscardNothing(a, k) == a
AfterDiscard(a, k) == Min({i \in a..k : stream[i] = "pre"} \cup {k + 1})

(* What on_discard is given: the field and its SOH.                        *)
CrudShort(n) == n * (FieldSize - 1)
Crud(n) == n * FieldSize

(* bytes_in_buffer after n fields were discarded: their SOHs stay counted. *)
LessDiscardedTwice(b, n) == b - n * (FieldSize + 1)
LessDiscarded(b, n) == b - n * (FieldSize - 1)

(* The elements of a set of positions, as the loop meets them.  (SortSeq   *)
(* has no definition that a prover can expand.)                            *)
InOrder(S) ==
  CHOOSE s \in [1..Cardinality(S) -> S] :
    \A m, n \in 1..Cardinality(S) : m < n => s[m] < s[n]

(* The loop over triplets, fields a..k.  A message is every field since    *)
(* the last CheckSum, up to the next.                                      *)
SumsUpTo(a, k) == {i \in a..k : stream[i] = "sum"}
Begin(a, i) == Max({a - 1} \cup SumsUpTo(a, i - 1)) + 1

(* Where the loop raises: a malformed field, or a CheckSum without a       *)
(* MsgType before it.  "bad" stands for every way a field can raise: no    *)
(* "=", a tag that field_by_id does not have, a message type it does not   *)
(* know (BusinessReject, which raises TypeError): the state left behind is *)
(* the same.                                                               *)
NoType(a, i) == stream[i] = "sum" /\ \A j \in Begin(a, i)..i : stream[j] # "type"
Faults(a, k) == {i \in a..k : stream[i] = "bad" \/ NoType(a, i)}

LastTaken(a, k) == Min(Faults(a, k) \cup {k + 1}) - 1

Messages(a, k) ==
  LET ends == InOrder(SumsUpTo(a, k))
  IN [n \in DOMAIN ends |-> [from |-> Begin(a, ends[n]), to |-> ends[n]]]

(* What is left in triplets: those after the last message.                 *)
SliceOneMore(a, k) == Max({a - 1} \cup SumsUpTo(a, k)) + 2
Slice(a, k) == Max({a - 1} \cup SumsUpTo(a, k)) + 1

-----------------------------------------------------------------------------
Init ==
  /\ stream \in Streams
  /\ fed = 0 /\ bufStart = 0 /\ first = 1 /\ bytes = 0
  /\ out = <<>> /\ discarded = 0 /\ raised = FALSE

(* Too few bytes, or no sign of a CheckSum: buf grows.                     *)
TooEarly(n) == bytes + n <= MinSize \/ ~SawEnd(fed + n)

FeedMore(n) ==
  /\ TooEarly(n)
  /\ bytes' = bytes + n
  /\ UNCHANGED <<bufStart, first, out, discarded, raised>>

(* Otherwise the whole fields move to triplets, those before a preamble    *)
(* are discarded, and the loop takes the messages.                         *)
FeedParse(n) ==
  LET k == Whole(fed + n)
      a == AfterDiscard(first, k)
      b == LessDiscarded(bytes + n, a - first)
      e == LastTaken(a, k)
      taken == b - FieldSize * (Slice(a, e) - a)
  IN
  /\ ~TooEarly(n)
  /\ discarded' = discarded + Crud(a - first)
  /\ out' = out \o Messages(a, e)
  /\ \/ /\ e = k
        /\ bufStart' = k * FieldSize
        /\ first' = Slice(a, k)
        /\ bytes' = taken
        /\ UNCHANGED raised
     \/ \* the triplets are not sliced
        /\ e < k /\ stream[e + 1] = "bad"
        /\ bufStart' = k * FieldSize
        /\ first' = a
        /\ bytes' = taken
        /\ raised' = TRUE
     \/ \* reset()
        /\ e < k /\ stream[e + 1] = "sum"
        /\ bufStart' = fed + n
        /\ first' = Whole(fed + n) + 1
        /\ bytes' = 0
        /\ raised' = TRUE

(* A chunk of n bytes.  A parser that has raised is not fed again: its     *)
(* protocol is gone.                                                       *)
Feed(n) ==
  /\ ~raised
  /\ fed + n <= FieldSize * Len(stream)
  /\ fed' = fed + n
  /\ UNCHANGED stream
  /\ FeedMore(n) \/ FeedParse(n)

Next == \E n \in 1..(FieldSize * Len(stream)) : Feed(n)

Spec == Init /\ [][Next]_vars

-----------------------------------------------------------------------------
TypeOK ==
  /\ stream \in Streams
  /\ fed \in 0..(FieldSize * Len(stream))
  /\ bufStart \in 0..fed
  /\ first \in 1..(Len(stream) + 1)
  /\ bytes \in Nat
  /\ \A i \in DOMAIN out : out[i].from \in 1..out[i].to /\ out[i].to \in 1..Len(stream)
  /\ discarded \in 0..fed
  /\ raised \in BOOLEAN

(* The messages of the stream itself, whatever the chunks: from a preamble *)
(* to the next CheckSum, among its first k fields.                         *)
Closed(k) == {i \in 1..k : stream[i] = "sum" /\ \E j \in 1..i : stream[j] = "pre"}
Opening(i) ==
  LET before == {j \in 1..(i - 1) : stream[j] = "sum"}
  IN Min({j \in 1..i : stream[j] = "pre" /\ \A s \in before : s < j})
Meant(k) ==
  LET ends == InOrder(Closed(k))
  IN [n \in DOMAIN ends |-> [from |-> Opening(ends[n]), to |-> ends[n]]]

(* Streams of messages only, after the end of one whose beginning was      *)
(* missed: every CheckSum behind a preamble is followed by a preamble, and *)
(* there is something between the two.                                     *)
BackToBack(s) ==
  \A i \in 2..Len(s) : s[i] = "sum" /\ (\E j \in 1..i : s[j] = "pre") =>
    /\ s[i - 1] # "pre"
    /\ i < Len(s) => s[i + 1] = "pre"

(* "data can arrive in arbitrary shapes and sizes so need to ensure that a *)
(* parser can cope with all the data ( even byte-at-a-time)"               *)
(* (testFIXParser.py 41-42): after any chunks, exactly the messages that   *)
(* are complete have been given to the callback, once, in order.           *)
ChunksDoNotMatter == ~raised => out = Meant(Whole(fed))

(* testDodgyStart and testDodgyEnd of testFIXParser.py: every byte fed is  *)
(* in a message, still in the parser or discarded.  A field counts once    *)
(* for every message that holds it.                                        *)
Given ==
  {p \in (DOMAIN out) \X (1..Len(stream)) : p[2] \in out[p[1]].from..out[p[1]].to}
EveryByteAccounted ==
  ~raised => FieldSize * Cardinality(Given) + Checksum + discarded = fed

(* bytes_in_buffer guards the search for a message (FIXParser.py 59): if   *)
(* it were below what is there, a complete message could be held back.     *)
NeverUndercounts == ~raised => bytes >= Checksum

(* "consumed everything up to the sync FIX= tag" (FIXParser.py 98-100):    *)
(* what the callback is given begins with a preamble.                      *)
SyncedOnPreamble == \A i \in DOMAIN out : stream[out[i].from] = "pre"
=============================================================================
