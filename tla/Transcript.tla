------------------------------ MODULE Transcript ------------------------------
(***************************************************************************)
(* Reading the transcript of a session page by page while the host writes  *)
(* its log (src/dshview.mjs): a stat, the cache of decoded logs, a read of *)
(* the first bytes, the frames found in them, and a window on what they    *)
(* show.  A log is a sequence of pieces: the reader looks for the magic    *)
(* number of a frame, which may also occur inside one, and a frame that is *)
(* being written, or was when the host died, lacks its last pieces.        *)
(***************************************************************************)
EXTENDS Integers, FiniteSets, Sequences, SequencesExt, Lists

CONSTANTS
  Logged,        \* sessions that have a log
  PageReader,    \* requests in progress at once (bound)
  Limit, Chars,  \* the limits and the message lengths the requests ask for
  MaxMessages,   \* transcriptMaxMessages
  CacheSize,     \* logs in the cache: 8 in the code
  ReadCap,       \* pieces of a log that are read: MAX_LOG_BYTES in the code
  Retries,       \* FRAME_BOUNDARY_RETRIES
  MaxPieces,     \* pieces of a frame (bound)
  MaxLog         \* pieces written at all (bound)

ASSUME TranscriptAssumption ==
  /\ {MaxMessages, CacheSize, ReadCap, Retries, MaxPieces, MaxLog} \subseteq Nat \ {0}
  /\ Limit \subseteq Nat \ {0} /\ Logged # {}

VARIABLES
  pieces,   \* each log: [frame, at, last], at counts the pieces of the frame
  events,   \* the event each frame holds
  decoded,  \* the cache, oldest first: [session, chars, size, out]
  page,     \* each request: what it asks for and what it has received
  partMoved     \* logs with a call that took the place of a part shown before it (history)

pageVars == <<pieces, events, decoded, page, partMoved>>

\* What a frame holds: a message, an assistant's part that asks for a tool, the
\* event of the call that part `of` asked for, or nothing that is shown.
Message == [kind |-> "message", of |-> 0]
Part == [kind |-> "part", of |-> 0]
NoMessage == [kind |-> "none", of |-> 0]

Nothing == [shots |-> <<>>, corrupt |-> 0, limited |-> FALSE]
IdlePage == [pc |-> "idle", session |-> CHOOSE s \in Logged : TRUE, limit |-> 0, chars |-> 0,
             tail |-> FALSE, offset |-> 0, got |-> {}, first |-> {}, since |-> {},
             cut |-> 0, whole |-> FALSE, out |-> Nothing]

TranscriptInit ==
  /\ pieces = [s \in Logged |-> <<>>]
  /\ events = [s \in Logged |-> <<>>]
  /\ decoded = <<>>
  /\ page = [r \in PageReader |-> IdlePage]
  /\ partMoved = {}

-----------------------------------------------------------------------------
AtLeast0(x) == IF x < 0 THEN 0 ELSE x
AtMost(x, y) == IF x < y THEN x ELSE y

\* Mutant: the messages that are skipped are counted from one.
windowFromOne(total, limit, offset, tail) ==
  LET cap == AtMost(limit, MaxMessages) IN
  IF tail THEN AtLeast0(total - offset - cap) + 1 .. AtLeast0(total - offset)
  ELSE AtMost(offset + 1, total) + 1 .. AtMost(total, offset + 1 + cap)

\* The messages of a page: a tail skips offset messages at the end.
window(total, limit, offset, tail) ==
  LET cap == AtMost(limit, MaxMessages)
      end == AtLeast0(total - offset)
      start == AtMost(offset, total)
  IN IF tail THEN AtLeast0(end - cap) + 1 .. end ELSE start + 1 .. AtMost(total, start + cap)

readFilePrefix(log) == SubSeq(log, 1, AtMost(Len(log), ReadCap))

IsFrame(q) == q[1].frame = q[Len(q)].frame /\ q[1].at = 1 /\ q[Len(q)].last

\* Mutant: the first piece that cannot be decoded ends the decoding.
decodeFramesUntilBad(data) ==
  LET from[i \in 1 .. Len(data) + 1] ==
        IF i > Len(data) \/ ~IsFrame(SubSeq(data, i, i)) THEN [frames |-> <<>>, corrupt |-> 0]
        ELSE [frames |-> <<data[i].frame>> \o from[i + 1].frames, corrupt |-> 0]
  IN from[1]

\* From each magic number, up to the next, or to one of those behind it; what gives
\* no frame is skipped.
decodeFrames(data) ==
  LET ends(i) == {j \in i .. AtMost(Len(data), i + Retries - 1) : IsFrame(SubSeq(data, i, j))}
      from[i \in 1 .. Len(data) + 1] ==
        IF i > Len(data) THEN [frames |-> <<>>, corrupt |-> 0]
        ELSE IF ends(i) = {} THEN [from[i + 1] EXCEPT !.corrupt = @ + 1]
        ELSE LET j == CHOOSE k \in ends(i) : \A l \in ends(i) : k <= l IN
             [from[j + 1] EXCEPT !.frames = <<data[i].frame>> \o @]
  IN from[1]

\* A part that asks for a tool is shown while the log has no event of that call.
Shown(evs, frames, n) ==
  \/ evs[n].kind \in {"message", "call"}
  \/ evs[n].kind = "part" /\ \A k \in ToSet(frames) : evs[k].of # n

renderMessages(evs, frames) == Filter(frames, {n \in ToSet(frames) : Shown(evs, frames, n)})

Read(s) ==
  LET d == decodeFrames(readFilePrefix(pieces[s])) IN
  [shots |-> renderMessages(events[s], d.frames), corrupt |-> d.corrupt,
   limited |-> Len(pieces[s]) > ReadCap]

\* Mutant: an entry is used whatever the log is by now.
readTranscriptCacheAlways(s, chars) ==
  Filter(decoded, {e \in ToSet(decoded) : e.session = s /\ e.chars = chars})

\* An entry is used for the same length, while the log has the size it was read with.
readTranscriptCache(s, chars) ==
  Filter(decoded, {e \in ToSet(decoded) :
                     e.session = s /\ e.chars = chars /\ e.size = Len(pieces[s])})

DropEntry(s) == Filter(decoded, {e \in ToSet(decoded) : e.session # s})

\* A full cache loses its oldest entry, even where it has the log's.
writeTranscriptCache(s, chars, out) ==
  LET room == IF Len(decoded) >= CacheSize THEN Tail(decoded) ELSE decoded
      entry == [session |-> s, chars |-> chars, size |-> Len(pieces[s]), out |-> out]
  IN decoded' = IF \E e \in ToSet(room) : e.session = s
                THEN [i \in 1 .. Len(room) |-> IF room[i].session = s THEN entry ELSE room[i]]
                ELSE Append(room, entry)

Given(p, chars, out) ==
  LET total == Len(out.shots)
      w == window(total, p.limit, p.offset, p.tail)
  IN [p EXCEPT !.pc = "page", !.got = @ \cup {out.shots[i] : i \in w}, !.offset = @ + Cardinality(w),
       !.cut = chars, !.out = out, !.whole = w = 1 .. total /\ ~out.limited]

-----------------------------------------------------------------------------
Written == FoldSet(LAMBDA s, n : n + Len(pieces[s]), 0, Logged)

\* The host writes the first piece of a frame; one before it may have stayed torn.
append(s, event, last) ==
  LET n == Len(events[s]) + 1 IN
  /\ Written < MaxLog
  /\ pieces' = [pieces EXCEPT ![s] = Append(@, [frame |-> n, at |-> 1, last |-> last])]
  /\ events' = [events EXCEPT ![s] = Append(@, event)]
  /\ partMoved' = IF event.of = 0 THEN partMoved ELSE partMoved \cup {s}
  /\ UNCHANGED <<decoded, page>>

appendMore(s, last) ==
  /\ Written < MaxLog /\ pieces[s] # <<>>
  /\ LET p == Last(pieces[s]) IN
     /\ ~p.last /\ p.at < MaxPieces
     /\ pieces' = [pieces EXCEPT ![s] = Append(@, [p EXCEPT !.at = @ + 1, !.last = last])]
  /\ UNCHANGED <<events, decoded, page, partMoved>>

\* transcript: the first page, or the next one behind what has been received.
transcript(r, s, limit, chars, tail) ==
  /\ page[r].pc \in {"idle", "done"}
  /\ page' = [page EXCEPT ![r] = [IdlePage EXCEPT
       !.pc = "stat", !.session = s, !.limit = limit, !.chars = chars, !.tail = tail]]
  /\ UNCHANGED <<pieces, events, decoded, partMoved>>

nextPage(r) ==
  /\ page[r].pc = "page"
  /\ page' = [page EXCEPT ![r].pc =
       IF page[r].offset < Len(page[r].out.shots) THEN "stat" ELSE "done"]
  /\ UNCHANGED <<pieces, events, decoded, partMoved>>

\* What the log holds whole, in the bytes that are read.
Whole(s) ==
  {n \in 1 .. Len(events[s]) :
     /\ events[s][n].kind \in {"message", "call"}
     /\ \E i \in 1 .. Len(readFilePrefix(pieces[s])) :
          pieces[s][i].frame = n /\ pieces[s][i].last /\ pieces[s][i].at <= Retries}

\* The stat, and with it the cache, whose entries also grow too old.
statLog(r) ==
  LET s == page[r].session
      p == [page[r] EXCEPT !.pc = "read", !.since = Whole(s),
                           !.first = IF page[r].offset = 0 THEN Whole(s) ELSE @]
      hit == readTranscriptCache(s, p.chars)
  IN
  /\ page[r].pc = "stat"
  /\ \/ /\ hit # <<>>
        /\ page' = [page EXCEPT ![r] = Given(p, hit[1].chars, hit[1].out)]
        /\ UNCHANGED decoded
     \/ /\ page' = [page EXCEPT ![r] = p]
        /\ decoded' = DropEntry(s)
  /\ UNCHANGED <<pieces, events, partMoved>>

\* The log may have grown since the stat: the entry has the size that was read.
readLog(r) ==
  LET p == page[r] IN
  /\ p.pc = "read"
  /\ page' = [page EXCEPT ![r] = Given(p, p.chars, Read(p.session))]
  /\ writeTranscriptCache(p.session, p.chars, Read(p.session))
  /\ UNCHANGED <<pieces, events, partMoved>>

TranscriptNext ==
  \/ \E s \in Logged, last \in BOOLEAN :
       \/ appendMore(s, last)
       \/ \E e \in {Message, Part, NoMessage} : append(s, e, last)
       \/ \E n \in 1 .. Len(events[s]) :
            events[s][n] = Part /\ append(s, [kind |-> "call", of |-> n], last)
  \/ \E r \in PageReader :
       \/ \E s \in Logged, l \in Limit, c \in Chars, t \in BOOLEAN : transcript(r, s, l, c, t)
       \/ nextPage(r) \/ statLog(r) \/ readLog(r)

TranscriptSpec == TranscriptInit /\ [][TranscriptNext]_pageVars

-----------------------------------------------------------------------------
\* The pages of a request, whatever is written between them: from the top they are
\* what the log shows without a gap, and from the end they reach back to the top.
\* (A call's event takes the place of the part that asked for it and moves the rest.)
PagesLeaveNoGap ==
  \A r \in PageReader : LET p == page[r] IN
    p.session \in partMoved \/
      IF p.tail THEN p.pc = "done" => p.first \subseteq p.got
      ELSE p.got = ToSet(SubSeq(Read(p.session).shots, 1, Cardinality(p.got)))

\* A page shows all that was whole in the log at the stat, torn frames before it or
\* not, never an older log or another length from the cache all requests share; and
\* one that says neither truncated nor corrupt has all of the log.
PageIsCurrent ==
  \A r \in PageReader : LET p == page[r] IN
    p.pc = "page" =>
      /\ p.since \subseteq ToSet(p.out.shots) /\ p.cut = p.chars
      /\ p.whole /\ p.out.corrupt = 0 => p.since \subseteq p.got
=============================================================================
