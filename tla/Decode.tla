-------------------------------- MODULE Decode ---------------------------------
(***************************************************************************)
(* trn's extraction of files that were posted in pieces (the 'e' command   *)
(* of libtrn/respond.cpp; libtrn/decode.cpp, uudecode.cpp and yenc.cpp).   *)
(* The user extracts the articles in any order and as often as he likes;   *)
(* each piece is kept in a directory named after the file, and the one     *)
(* that completes it starts the decoding. The pieces stay on disk between  *)
(* runs, and the program may be killed anywhere.                           *)
(*                                                                         *)
(* A line of an article is a record: its kind k, a name or unit of data d, *)
(* numbers n and m, and for yEnc y, the size of the file and the range of  *)
(* the piece, and c, the checksums of piece and file. A checksum is the    *)
(* data it was computed from.                                              *)
(***************************************************************************)
EXTENDS Integers, Sequences, FiniteSets, SequencesExt

CONSTANTS
  Postings,   \* [file, whole, good, arts]: a file as it was posted, in articles
  MaxParts,   \* bound on part numbers
  MaxInputs,  \* bound on the articles that are extracted
  MaxCrashes  \* bound on the times the program is killed

ASSUME PostingsAssumption ==
  \A P \in Postings : Len(P.arts) \in 1..MaxParts /\ P.file # "unknown"

VARIABLES
  parts,    \* file -> the pieces kept of it: part number -> its lines
  count,    \* file -> the number in its CT file, 0 without one
  out,      \* the decoded files: name -> its units of data
  job,      \* the extraction that is under way
  uu,       \* UuDecoder: [ofp, len], which outlives a decoding
  told,     \* what the last extraction came to: [result, file]
  inputs, crashes,
  seen,     \* history: the articles extracted since the program started, but for
            \* those whose file could not be written
  used,     \* history: the postings of which an article was ever extracted
  torn      \* history: the program was killed while it kept a uuencoded piece

decodeVars == <<parts, count, out, job, uu, told, inputs, crashes, seen, used, torn>>

Files == {P.file : P \in Postings} \cup {"unknown"}
Idle == [pc |-> "idle", post |-> {}, lines |-> <<>>, file |-> "", part |-> 0, total |-> 0,
         p |-> 0, st |-> "start", clean |-> FALSE, data |-> <<>>]
Closed == [ofp |-> "", len |-> 0]

-------------------------------------------------------------------------------
\* What the article is.

\* decode_subject: a subject without a consistent "part of total" names no file.
DecodeSubject(s) ==
  IF s.total = 0 \/ s.part = -1 \/ s.part > s.total
  THEN [file |-> "", part |-> -1, total |-> 0] ELSE s

Full(l) == l.k = "data" /\ l.n = 4
\* uue_prescan: s is the name and numbers known so far, s.kind what was found.
UuePrescan(s, l) ==
  LET Found(f, p, t) == [s EXCEPT !.kind = "uue", !.file = f, !.part = p, !.total = t]
      Kept == Found(s.file, s.part, s.total)
  IN CASE l.k = "begin" -> IF s.part = -1 THEN Found("", 1, 0) ELSE Kept
       [] l.k = "section" /\ l.n # 0 /\ (l.m = 0 \/ l.n <= l.m) -> Found(l.d, l.n, l.m)
       [] (l.k = "BEGIN" \/ Full(l)) /\ s.file # "" /\ 0 < s.part /\ s.part <= s.total -> Kept
       [] l.k = "xfile" -> [s EXCEPT !.file = l.d]
       [] l.k = "xpart" /\ l.n > 0 -> [s EXCEPT !.part = l.n]
       [] l.k = "xtotal" /\ l.n > 0 -> [s EXCEPT !.total = l.n]
       [] OTHER -> s
\* yenc_prescan: y is <<size, begin, end>>; part 0 is a file in one piece.
YencHeader(l) == l.k = "ybegin" /\ (l.n = 0 => l.m = 0) /\ (l.m = 0 \/ l.n <= l.m)
\* Articles are decoded from the line that tells what they are.
Prescan(art) ==
  LET Scan(s, l) ==
        IF s.kind # "none" THEN s
        ELSE IF YencHeader(l)
        THEN [s EXCEPT !.at = @ + 1, !.kind = "yenc", !.file = l.d, !.part = l.n, !.total = l.m]
        ELSE [UuePrescan(s, l) EXCEPT !.at = @ + 1]
  IN FoldLeft(Scan, DecodeSubject(art.subject) @@ [kind |-> "none", at |-> 0], art.lines)
Text(art) == SubSeq(art.lines, Prescan(art).at, Len(art.lines))

-------------------------------------------------------------------------------
\* uudecode, one line at a time: u.st is the DecodeState, u.last the saved line.

NoLine == [k |-> "", d |-> "", n |-> 0, m |-> 0, y |-> <<>>, c |-> <<>>]
Written(u, l) ==
  IF l.k \in {"", "tick"} THEN u ELSE [u EXCEPT !.out[u.ofp] = Append(@, l.d)]
\* The line after begin gives the length of a full one.
SetLength(u, l) == [u EXCEPT !.st = "active", !.len = l.n]
Ended(u) ==
  [Written(u, IF u.st = "last" THEN u.last ELSE NoLine) EXCEPT
     !.st = "maybe", !.ofp = "", !.last = NoLine]
Active(u, l) ==
  CASE Full(l) /\ l.n = u.len -> Written(u, l)
    [] ~(Full(l) /\ l.n = u.len) /\ l.n > u.len -> [u EXCEPT !.st = "inactive"]
    [] OTHER -> IF l.k = "end" THEN Ended(u)
                ELSE [u EXCEPT !.last = l, !.st = IF l.k = "tick" THEN "last" ELSE "near"]
UuLine(u, l) ==
  CASE u.st \in {"start", "maybe"} ->
         IF l.k = "begin" THEN [u EXCEPT !.st = "setlen", !.ofp = l.d, !.out = (l.d :> <<>>) @@ @] ELSE u
    [] u.st = "inactive" ->
         IF Full(l) /\ l.n = u.len THEN Active(SetLength(u, l), l)
         ELSE [u EXCEPT !.st = IF l.k = "BEGIN" THEN "active" ELSE @]
    [] u.st = "setlen" -> Active(SetLength(u, l), l)
    [] u.st = "active" -> Active(u, l)
    [] u.st = "near" ->
         IF l.k = "end" THEN Ended(u)
         ELSE [u EXCEPT !.st = IF l.k = "tick" THEN "last" ELSE "inactive"]
    [] u.st = "last" -> IF l.k = "end" THEN Ended(u) ELSE [u EXCEPT !.st = "inactive"]
\* A piece ends: all but a finished file go on in the next one as inactive. The
\* saved line is a local of the call.
Uudecode(u, lines) ==
  LET v == FoldLeft(UuLine, [u EXCEPT !.last = NoLine], lines)
  IN [v EXCEPT !.st = IF v.st = "maybe" THEN "maybe" ELSE "inactive", !.last = NoLine]

-------------------------------------------------------------------------------
\* yenc_decode: the piece in these lines, or None when it is not whole.

None == [file |-> "", part |-> 0, total |-> 0, size |-> 0, begin |-> 0, data |-> <<>>, crc |-> <<>>]
\* A plausible mistake: the checksum of the piece is not looked at.
WholePieceUnchecked(data, expected, end) == Len(data) = expected /\ end.n = expected
WholePiece(data, expected, end) ==
  Len(data) = expected /\ end.n = expected /\ end.c[1] = data
YencDecode(lines) ==
  LET hs == {i \in DOMAIN lines : YencHeader(lines[i])}
      es == {i \in DOMAIN lines : lines[i].k = "yend"}
      h == CHOOSE i \in hs : \A j \in hs : i <= j
      e == CHOOSE i \in es : \A j \in es : i <= j
      data == [i \in 1..(e - h - 1) |-> lines[h + i].d]
      range == lines[h].y[3] - lines[h].y[2] + 1
  IN IF hs = {} \/ es = {} \/ e < h \/ ~WholePiece(data, range, lines[e]) THEN None
     ELSE [file |-> lines[h].d, part |-> lines[h].n, total |-> lines[h].m,
           size |-> lines[h].y[1], begin |-> lines[h].y[2], data |-> data, crc |-> lines[e].c[2]]
Encoded(lines) ==
  LET es == {i \in DOMAIN lines : lines[i].k = "yend"}
  IN IF es = {} THEN lines ELSE SubSeq(lines, 1, CHOOSE i \in es : \A j \in es : i <= j)

-------------------------------------------------------------------------------
DecodeInit ==
  /\ parts = [f \in Files |-> <<>>]
  /\ count = [f \in Files |-> 0]
  /\ out = <<>>
  /\ job = Idle /\ uu = Closed
  /\ told = [result |-> "none", file |-> ""]
  /\ inputs = 0 /\ crashes = 0 /\ seen = {} /\ used = {} /\ torn = FALSE

Tell(r) == told' = [result |-> r, file |-> job.file] /\ job' = Idle
\* The article has been dealt with; every part that it holds is known.
Finished(r) == Tell(r) /\ seen' = seen \cup job.post
\* The article has to be extracted again.
Failed == Tell("failed") /\ seen' = seen \ job.post
Disk == <<parts, count, out>>
History == <<inputs, crashes, used, torn>>
Has(f, p) == p \in DOMAIN parts[f]
With(f, p, lines) == [parts EXCEPT ![f] = (p :> lines) @@ @]
AllHere(f, total) == \A p \in 1..total : Has(f, p)
\* A file that was being written when its write failed, or the program was killed, has
\* lost its end.
Torn(s) == {SubSeq(s, 1, n) : n \in 0..Len(s)}
TornPart(p, lines) ==
  /\ \E s \in Torn(lines) : parts' = With(job.file, p, s)
  /\ UNCHANGED <<count, out>>
TornFile(f, data) ==
  /\ \E s \in Torn(data) : out' = (f :> s) @@ out
  /\ UNCHANGED <<parts, count>>
\* Each piece of the file is one article's of the same posting, to its last line.
Clean(f, total) ==
  \E P \in Postings : /\ P.file = f /\ Len(P.arts) = total
                      /\ \A p \in 1..total : parts[f][p] = Text(P.arts[p])

\* save_article 'e', up to the decision what to do with the article.
Extract(P, i) ==
  /\ job.pc = "idle" /\ inputs < MaxInputs
  /\ \E s \in {Prescan(P.arts[i])} :
       LET file == IF s.file = "" THEN "unknown" ELSE s.file
           j == [Idle EXCEPT !.post = {<<P, i>>}, !.lines = Text(P.arts[i]), !.file = file,
                             !.part = s.part, !.total = s.total]
       IN \/ /\ s.kind = "none"
             /\ told' = [result |-> "unknown", file |-> ""]
             /\ UNCHANGED <<job, parts>>
          \/ /\ s.kind = "uue"
             /\ IF s.total = 1 /\ s.part = 1
                THEN /\ job' = [j EXCEPT !.pc = "decode", !.clean = Len(P.arts) = 1]
                     /\ UNCHANGED <<parts, told>>
                ELSE \* the kept piece of that number is opened for writing
                     /\ job' = [j EXCEPT !.pc = "save"]
                     /\ parts' = With(file, s.part, <<>>)
                     /\ UNCHANGED told
          \/ /\ s.kind = "yenc"
             /\ job' = [j EXCEPT !.pc = "ycheck", !.lines = Encoded(@)]
             /\ UNCHANGED <<parts, told>>
  /\ inputs' = inputs + 1 /\ used' = used \cup {P}
  /\ UNCHANGED <<count, out, uu, crashes, seen, torn>>

\* decode_piece: a line of the article goes to the piece; a line "end" shows that
\* this is the last one when that was not known.
SaveLine ==
  /\ job.pc = "save" /\ job.lines # <<>>
  /\ \E l \in {Head(job.lines)} :
       LET last == job.total = 0 /\ l.k = "end"
       IN /\ parts' = [parts EXCEPT ![job.file][job.part] = Append(@, l)]
          /\ count' = [count EXCEPT ![job.file] = IF last THEN job.part ELSE @]
          /\ job' = [job EXCEPT !.lines = Tail(@), !.total = IF last THEN job.part ELSE @]
  /\ UNCHANGED <<out, uu, told, seen>> /\ UNCHANGED History

TotalOf(t) == IF t = 0 THEN count[job.file] ELSE t
\* Are all the pieces here?
CheckParts ==
  /\ job.pc = "save" /\ job.lines = <<>>
  /\ \E t \in {TotalOf(job.total)} :
       IF t = 0 \/ ~AllHere(job.file, t) THEN Finished("stored")
       ELSE /\ job' = [job EXCEPT !.pc = "decode", !.total = t, !.p = 1,
                                  !.clean = Clean(job.file, t)]
            /\ UNCHANGED <<told, seen>>
  /\ UNCHANGED Disk /\ UNCHANGED uu /\ UNCHANGED History

\* The decoder is given a piece, or what is left of the article.
DecodePart ==
  /\ job.pc = "decode"
  /\ \E v \in {Uudecode([st |-> job.st, last |-> NoLine, ofp |-> uu.ofp, len |-> uu.len, out |-> out],
                        IF job.p = 0 THEN job.lines ELSE parts[job.file][job.p])} :
       /\ out' = v.out
       /\ uu' = [ofp |-> v.ofp, len |-> v.len]
       /\ job' = [job EXCEPT !.st = v.st, !.p = @ + 1,
                             !.pc = IF job.p \in {0, job.total} THEN "decoded" ELSE "decode"]
  /\ UNCHANGED <<parts, count, told, seen>> /\ UNCHANGED History

\* A file without an end leaves the pieces where they are.
Unfinished(st) == st # "maybe"
DecodeEnds ==
  /\ job.pc = "decoded"
  /\ uu' = [uu EXCEPT !.ofp = ""]
  /\ \/ /\ Unfinished(job.st)
        /\ Finished("failed")
     \/ /\ ~Unfinished(job.st)
        /\ IF job.p = 1 THEN Finished("decoded")
           ELSE job' = [job EXCEPT !.pc = "clean", !.p = 1] /\ UNCHANGED <<told, seen>>
  /\ UNCHANGED Disk /\ UNCHANGED History

\* The pieces are removed in order, then CT.
Cleanup ==
  /\ job.pc = "clean"
  /\ \/ /\ job.p <= job.total
        /\ parts' = [parts EXCEPT ![job.file] = [q \in DOMAIN @ \ {job.p} |-> @[q]]]
        /\ job' = [job EXCEPT !.p = @ + 1]
        /\ UNCHANGED <<count, told, seen>>
     \/ /\ job.p > job.total
        /\ count' = [count EXCEPT ![job.file] = 0]
        /\ Finished("decoded")
        /\ UNCHANGED parts
  /\ UNCHANGED <<out, uu>> /\ UNCHANGED History

-------------------------------------------------------------------------------
\* decode_yenc_piece.

Current == YencDecode(job.lines)
End(c) == c.begin + Len(c.data) - 1
\* The number of pieces that this one or, failing that, those before it tell.
Known(c) == IF End(c) = c.size THEN c.part ELSE c.total
YencTotal(c) == IF Known(c) = 0 THEN count[c.file] ELSE Known(c)
\* The piece must be whole, and its numbers fit those of the others.
Consistent(c) ==
  /\ End(c) = c.size => c.total \in {0, c.part}
  /\ count[c.file] # 0 /\ Known(c) # 0 => count[c.file] = Known(c)
  /\ YencTotal(c) # 0 => c.part <= YencTotal(c)
YencCheck ==
  /\ job.pc = "ycheck"
  /\ \E c \in {Current} :
       IF c = None \/ (c.part # 0 /\ ~Consistent(c)) THEN Finished("failed")
       ELSE /\ job' = [job EXCEPT !.pc = "ystore",
                                  !.total = IF c.part = 0 THEN 0 ELSE YencTotal(c)]
            /\ UNCHANGED <<told, seen>>
  /\ UNCHANGED Disk /\ UNCHANGED uu /\ UNCHANGED History
\* A file in one piece is written at once; a piece is kept as it is. What was there is
\* gone when the write fails, unless the file could not even be opened.
YencStore ==
  /\ job.pc = "ystore"
  /\ \E c \in {Current} :
       \/ /\ c.part = 0
          /\ \/ out' = (c.file :> c.data) @@ out /\ UNCHANGED <<parts, count>> /\ Finished("decoded")
             \/ TornFile(c.file, c.data) /\ Failed
       \/ /\ c.part # 0
          /\ \/ /\ parts' = With(c.file, c.part, job.lines)
                /\ job' = [job EXCEPT !.pc = "yct"] /\ UNCHANGED <<count, out, told, seen>>
             \/ TornPart(c.part, job.lines) /\ Failed
       \/ UNCHANGED Disk /\ Failed
  /\ UNCHANGED uu /\ UNCHANGED History

\* The number of pieces is lost when its write fails, and with it what the other
\* articles of the file told of it.
YencCountFails ==
  /\ job.total # 0
  /\ \E n \in {0, job.total} : count' = [count EXCEPT ![job.file] = n]
  /\ Tell("failed") /\ seen' = {a \in seen : a[1].file # job.file}
YencCount ==
  /\ job.pc = "yct"
  /\ \/ YencCountFails
     \/ /\ count' = [count EXCEPT ![job.file] = IF job.total = 0 THEN @ ELSE job.total]
        /\ IF job.total = 0 \/ ~AllHere(job.file, job.total) THEN Finished("stored")
           ELSE job' = [job EXCEPT !.pc = "yassemble"] /\ UNCHANGED <<told, seen>>
  /\ UNCHANGED <<parts, out, uu>> /\ UNCHANGED History

\* The pieces, each checked against this one and those before it.
Assembled(c) ==
  LET Join(s, p) ==
        LET d == YencDecode(parts[job.file][p])
        IN IF \/ s.bad \/ d = None \/ d.part # p \/ d.size # c.size \/ d.file # c.file
              \/ d.total \notin {0, job.total} \/ d.begin # Len(s.data) + 1
              \/ (d.crc # <<>> /\ s.crc # <<>> /\ d.crc # s.crc)
           THEN [s EXCEPT !.bad = TRUE]
           ELSE [s EXCEPT !.data = @ \o d.data, !.crc = IF d.crc = <<>> THEN @ ELSE d.crc]
      s == FoldLeft(Join, [data |-> <<>>, crc |-> <<>>, bad |-> FALSE],
                    [p \in 1..job.total |-> p])
  IN [s EXCEPT !.bad = @ \/ Len(s.data) # c.size \/ (s.crc # <<>> /\ s.crc # s.data)]
\* They go to the file "decoded" beside them first; a failed write of it ends there.
YencAssemble ==
  /\ job.pc = "yassemble"
  /\ \/ Failed
     \/ \E s \in {Assembled(Current)} :
          IF s.bad THEN Finished("failed")
          ELSE job' = [job EXCEPT !.pc = "ycopy", !.data = s.data] /\ UNCHANGED <<told, seen>>
  /\ UNCHANGED Disk /\ UNCHANGED uu /\ UNCHANGED History
\* A plausible mistake: whether the copy was made is not looked at.
YencCopyUnchecked ==
  /\ job.pc = "ycopy"
  /\ TornFile(job.file, job.data)
  /\ job' = [job EXCEPT !.pc = "clean", !.p = 1]
  /\ UNCHANGED <<uu, told, seen>> /\ UNCHANGED History
\* The assembled file is copied to its place. The copy replaces what was there, which
\* is gone when it fails on the way; then the pieces are kept.
YencCopy ==
  /\ job.pc = "ycopy"
  /\ \/ /\ out' = (job.file :> job.data) @@ out /\ UNCHANGED <<parts, count>>
        /\ job' = [job EXCEPT !.pc = "clean", !.p = 1]
        /\ UNCHANGED <<told, seen>>
     \/ TornFile(job.file, job.data) /\ Failed
     \/ UNCHANGED Disk /\ Failed
  /\ UNCHANGED uu /\ UNCHANGED History

-------------------------------------------------------------------------------
Crash ==
  /\ job.pc # "idle" /\ crashes < MaxCrashes
  /\ crashes' = crashes + 1
  /\ \/ job.pc = "save" /\ TornPart(job.part, parts[job.file][job.part])
     \/ job.pc = "ystore" /\ Current.part # 0 /\ TornPart(Current.part, job.lines)
     \/ job.pc = "ystore" /\ Current.part = 0 /\ TornFile(job.file, Current.data)
     \/ job.pc \in {"decode", "decoded"} /\ uu.ofp # "" /\ TornFile(uu.ofp, out[uu.ofp])
     \/ job.pc = "ycopy" /\ TornFile(job.file, job.data)
     \/ job.pc = "yct" /\ count' = [count EXCEPT ![job.file] = 0] /\ UNCHANGED <<parts, out>>
     \/ UNCHANGED <<parts, count, out>>
  /\ job' = Idle /\ uu' = Closed /\ seen' = {}
  /\ torn' = (torn \/ job.pc = "save")
  /\ told' = [result |-> "none", file |-> ""]
  /\ UNCHANGED <<inputs, used>>

DecodeNext ==
  \/ \E P \in Postings : \E i \in DOMAIN P.arts : Extract(P, i)
  \/ SaveLine \/ CheckParts \/ DecodePart \/ DecodeEnds \/ Cleanup
  \/ YencCheck \/ YencStore \/ YencCount \/ YencAssemble \/ YencCopy
  \/ Crash
DecodeSpec == DecodeInit /\ [][DecodeNext]_decodeVars

-------------------------------------------------------------------------------
Holds(f, data) == f \in DOMAIN out /\ out[f] = data
Wholes(f) == {P.whole : P \in {Q \in Postings : Q.file = f}}
Yenc(P) == \E i \in DOMAIN P.arts[1].lines : P.arts[1].lines[i].k = "ybegin"
Alone(P) == \A Q \in used : Q.file = P.file => Q = P

\* Once every article of a posting has been extracted since the program started, the
\* file is there, however often each was, and whatever a run that was killed had
\* left behind; unless that run was killed in the middle of a uuencoded piece. An
\* article whose yEnc piece, or the file made with it, could not be written has to be
\* extracted again, and all of the file's when the number of its pieces could not be.
CompleteIsDecoded ==
  job.pc = "idle" =>
    \A P \in used : P.good /\ Alone(P) /\ ~(torn /\ ~Yenc(P))
                     /\ (\A i \in DOMAIN P.arts : <<P, i>> \in seen)
                    => Holds(P.file, P.whole)

\* The file that is decoded is the one that was posted. From uuencoded pieces that
\* holds when each is the whole of its article, whatever text surrounds the data and
\* in whatever order they were extracted; nothing tells a piece of another posting
\* under the same name. A yEnc file that is written out was posted as it is, even if
\* pieces of several postings were kept together or lost their end.
DecodedIsWhole ==
  \A P \in Postings :
    P.good => /\ job.pc \in {"decoded", "clean"} /\ job.clean /\ P.file = job.file /\ Alone(P)
                   => Holds(P.file, P.whole)
              /\ Yenc(P) /\ told = [result |-> "decoded", file |-> P.file]
                   => \E w \in Wholes(P.file) : Holds(P.file, w)

\* A posting comes out whole, and comes out.
PostingsAreDecoded == DecodedIsWhole /\ CompleteIsDecoded

\* A piece is removed only when the file it belongs to is complete on disk.
NothingLost ==
  [][\A P \in used, p \in 1..MaxParts :
       /\ Has(P.file, p) /\ ~Has(P.file, p)'
       /\ P.good /\ Alone(P) /\ (job.clean \/ Yenc(P))
       => Holds(P.file, P.whole)]_decodeVars
================================================================================
