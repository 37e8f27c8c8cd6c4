-------------------------- MODULE ResultTransport ---------------------------
(***************************************************************************)
(* Long tool results and their continuation (src/src/result-transport.ts): *)
(* a result longer than InlineChars is kept and handed out in chunks.  One *)
(* of a read-only tool is kept in the memory of the process, within a      *)
(* count and a size per account and a size for all; another is written to  *)
(* the spool.  Either is good for an hour, a spooled one over a restart.   *)
(*                                                                         *)
(* A text is its length, its bytes and the offsets that would split a      *)
(* surrogate pair.  A result is its number in the order of the wraps; the  *)
(* clock advances with each wrap (what fills the caps takes longer than a  *)
(* millisecond to format).  Left out: results that fit inline, the spool   *)
(* of another account, which has another directory.                        *)
(***************************************************************************)
EXTENDS Sums, FiniteSets, FiniteSetsExt
CONSTANTS
  Client,      \* who calls a tool and reads its result to the end
  AccountOf,   \* the account of each
  LongText,    \* [size, bytes, splits]
  Chunk,       \* chunk sizes a client may ask for; the least one is allowed
  FirstChunk,  \* DEFAULT_RESULT_CHUNK_CHARS
  ResultTTL, MaxCount, MaxChars, MaxBytes,
  SpoolScan,   \* directory entries one wrap looks at
  MaxClock     \* bound

ASSUME TransportAssumption ==
  /\ \A t \in LongText : /\ t.size \in Nat \ {0} /\ t.bytes \in Nat
                         /\ t.splits \subseteq 1..(t.size - 1)
                         /\ \A k \in t.splits : k + 1 \notin t.splits
  /\ Chunk \cup {FirstChunk} \subseteq Nat \ {0, 1}
  /\ DOMAIN AccountOf = Client
  /\ {ResultTTL, MaxChars, MaxBytes, SpoolScan, MaxClock} \subseteq Nat
  /\ MaxCount \in Nat \ {0}

VARIABLES
  made,      \* every result so far: [account, text, time, spooled]
  cached,    \* those in memory
  spool,     \* those with a file
  clock,
  booted,    \* how many there were when the process was started
  client     \* of each: [of, at], the result it reads and how far it is
transportVars == <<made, cached, spool, clock, booted, client>>

Reading0 == [of |-> 0, at |-> 0, expired |-> FALSE]
TransportInit ==
  /\ made = <<>> /\ cached = {} /\ spool = {} /\ clock = 0 /\ booted = 0
  /\ client = [c \in Client |-> Reading0]

-----------------------------------------------------------------------------
Chars(log, s) == Summed([i \in DOMAIN log |-> IF i \in s THEN log[i].text.size ELSE 0])
Bytes(log, s) == Summed([i \in DOMAIN log |-> IF i \in s THEN log[i].text.bytes ELSE 0])
From(s, i) == {j \in s : j >= i}
Good(log, i, time) == time - log[i].time <= ResultTTL

\* Mutant: the newest are given up first.
PrunedNewest(log, s, time) ==
  LET live == {i \in s : Good(log, i, time)}
  IN {i \in live : Bytes(log, {j \in live : j <= i}) <= MaxBytes}
\* pruneInlineResults: the expired, then the oldest until the rest fits.
Pruned(log, s, time) ==
  LET live == {i \in s : Good(log, i, time)}
  IN {i \in live : Bytes(log, From(live, i)) <= MaxBytes}

\* The account's oldest make room for a new text.
Roomy(log, s, account, text) ==
  LET own == {i \in s : log[i].account = account}
      fits(i) == /\ Cardinality(From(own, i)) < MaxCount
                 /\ Chars(log, From(own, i)) + text.size <= MaxChars
  IN {i \in s : i \in own => fits(i)}

\* safeSliceEnd: a pair is not cut in two.
SafeEnd(text, offset, end) ==
  IF end > offset /\ end \in text.splits THEN end - 1 ELSE end

\* chunkText, of a result that read finds in memory or in a file.
Advanced(log, mem, files, i, offset, chars, time) ==
  IF i \in mem \/ (i \in files /\ Good(log, i, time))
  THEN [of |-> i, expired |-> FALSE,
        at |-> SafeEnd(log[i].text, offset, Min({log[i].text.size, offset + chars}))]
  ELSE [of |-> i, expired |-> TRUE, at |-> offset]

-----------------------------------------------------------------------------
Reads(c) == IF client[c].of = 0 \/ client[c].expired THEN FALSE
            ELSE client[c].at < made[client[c].of].text.size
New(c, text, spooled) ==
  Append(made, [account |-> AccountOf[c], text |-> text, time |-> clock + 1, spooled |-> spooled])

\* wrap of a read-only tool.
WrapInMemory(c, text) ==
  LET log == New(c, text, FALSE)
      n == Len(log)
      room == Roomy(log, Pruned(log, cached, clock + 1), AccountOf[c], text)
  IN
  /\ clock < MaxClock /\ text.bytes <= MaxBytes
  /\ made' = log /\ clock' = clock + 1
  /\ cached' = Pruned(log, room \cup {n}, clock + 1)
  /\ client' = [client EXCEPT ![c] = Advanced(log, cached', spool, n, 0, FirstChunk, clock + 1)]
  /\ UNCHANGED <<spool, booted>>

\* wrap of another tool: of the first entries of the directory the expired go.
WrapSpooled(c, text) ==
  LET log == New(c, text, TRUE)
      n == Len(log)
      own == {i \in spool : log[i].account = AccountOf[c]}
  IN
  /\ clock < MaxClock
  /\ made' = log /\ clock' = clock + 1
  /\ cached' = Pruned(log, cached, clock + 1)
  /\ \E seen \in {s \in SUBSET own : Cardinality(s) = Min({SpoolScan, Cardinality(own)})} :
       spool' = (spool \ {i \in seen : ~Good(log, i, clock + 1)}) \cup {n}
  /\ client' = [client EXCEPT ![c] = Advanced(log, cached', spool', n, 0, FirstChunk, clock + 1)]
  /\ UNCHANGED booted

\* memhub_result.
ReadOn(c, chars) ==
  LET r == client[c] IN
  /\ Reads(c)
  /\ cached' = Pruned(made, cached, clock)
  /\ client' = [client EXCEPT ![c] = Advanced(made, cached', spool, r.of, r.at, chars, clock)]
  /\ UNCHANGED <<made, spool, clock, booted>>

\* Time passes; the interval prunes.
PassTime ==
  /\ clock < MaxClock /\ clock' = clock + 1
  /\ cached' \in {cached, Pruned(made, cached, clock + 1)}
  /\ UNCHANGED <<made, spool, booted, client>>

\* The process is restarted: what is in memory is gone.
Reboot ==
  /\ cached' = {} /\ booted' = Len(made)
  /\ UNCHANGED <<made, spool, clock, client>>

TransportNext ==
  \/ \E c \in Client : \/ \E t \in LongText : WrapInMemory(c, t) \/ WrapSpooled(c, t)
                       \/ \E n \in Chunk : ReadOn(c, n)
  \/ PassTime \/ Reboot
TransportSpec == TransportInit /\ [][TransportNext]_transportVars

-----------------------------------------------------------------------------
Result == [account : {AccountOf[c] : c \in Client}, text : LongText, time : 1..MaxClock,
           spooled : BOOLEAN]
TransportTypeOK ==
  /\ made \in Seq(Result)
  /\ cached \subseteq DOMAIN made /\ spool \subseteq DOMAIN made /\ cached \cap spool = {}
  /\ clock \in 0..MaxClock /\ booted \in 0..Len(made)
  /\ client \in [Client -> [of : 0..Len(made), at : Nat, expired : BOOLEAN]]

InMemory == {i \in DOMAIN made : ~made[i].spooled}
OfAccount(i) == {j \in InMemory : made[j].account = made[i].account}
\* What a reader may be told for: an hour, a restart, or a cap that the results
\* from this one on exceed.
Excused(i) ==
  \/ ~Good(made, i, clock)
  \/ /\ i \in InMemory
     /\ \/ i <= booted
        \/ Cardinality(From(OfAccount(i), i)) > MaxCount
        \/ Chars(made, From(OfAccount(i), i)) > MaxChars
        \/ Bytes(made, From(InMemory, i)) > MaxBytes

\* A client that follows next_offset gets every piece of its result, none ending
\* within a pair, each longer than nothing; it is told "expired" only of an old
\* result, after a restart, or when newer ones needed the room, and the caps hold
\* all the while, whoever else wraps and reads.
ResultReadBack ==
  /\ \A c \in Client : client[c].of # 0 =>
       LET i == client[c].of IN
       /\ client[c].expired => Excused(i)
       /\ ~client[c].expired => client[c].at > 0 /\ client[c].at \notin made[i].text.splits
  /\ Bytes(made, cached) <= MaxBytes
  /\ \A i \in cached : Cardinality(From(OfAccount(i), i) \cap cached) <= MaxCount
=============================================================================
