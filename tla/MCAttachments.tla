---------------------------- MODULE MCAttachments ------------------------------
(* Articles made from trees: text, quoted-printable text that may end in    *)
(* the middle of a line, an inline image, an application; parts and         *)
(* alternatives of these in two levels; messages in messages. An inner      *)
(* multipart may lack its last boundary.                                    *)
(* Files in pieces, uuencoded and yEnc.                                     *)
EXTENDS Attachments

Leaf(kind) == [kind |-> kind, kids |-> <<>>]
Leaves == {Leaf("text"), Leaf("qp"), Leaf("cut"), Leaf("image"), Leaf("app")}
Nodes(kids) == {[kind |-> k, kids |-> c] : k \in {"mixed", "alternative"}, c \in kids}
Messages1(kids) == {[kind |-> "message", kids |-> <<c>>] : c \in kids}
Small == Leaves \cup Nodes({<<c>> : c \in Leaves} \cup {<<c, d>> : c, d \in Leaves})
                \cup Messages1(Leaves)
Pairs == {<<c, d>> : c \in Small, d \in Leaves} \cup {<<c, d>> : c \in Leaves, d \in Small}
Trees == Small \cup Nodes(Pairs) \cup Messages1(Small)

NoHead == [ctype |-> "none", b |-> "", alt |-> FALSE, enc |-> "none", inline |-> FALSE, id |-> 0]
Head0(n, id) ==
  [ctype |-> CASE n.kind \in {"qp", "cut"} -> "text"
               [] n.kind \in {"mixed", "alternative"} -> "multipart"
               [] OTHER -> n.kind,
   b |-> IF n.kind \in {"mixed", "alternative"} THEN ToString(id) ELSE "",
   alt |-> n.kind = "alternative", inline |-> n.kind = "image",
   enc |-> IF n.kind \in {"qp", "cut"} THEN "qp" ELSE "none", id |-> id]
BodyLine(k, b, h, id, soft) == [k |-> k, b |-> b, h |-> h, id |-> id, soft |-> soft]
Words(id, soft) == BodyLine("text", "", NoHead, id, soft)
HeadLine(n, id) ==
  IF n.kind = "text" THEN BodyLine("blank", "", NoHead, 0, FALSE)
  ELSE BodyLine("hdr", "", Head0(n, id), 0, FALSE)

RECURSIVE Body(_, _, _)
Body(n, id, sloppy) ==
  CASE n.kind = "text" -> <<Words(10 * id + 1, FALSE), Words(10 * id + 2, FALSE)>>
    [] n.kind = "qp" -> <<Words(10 * id + 1, TRUE), Words(10 * id + 2, FALSE)>>
    [] n.kind = "cut" -> <<Words(10 * id + 1, FALSE), Words(10 * id + 2, TRUE)>>
    [] n.kind \in {"image", "app"} -> <<Words(10 * id + 1, FALSE)>>
    [] n.kind = "message" ->
         <<HeadLine(n.kids[1], 10 * id + 1)>> \o Body(n.kids[1], 10 * id + 1, sloppy)
    [] OTHER ->
         <<Words(0, FALSE)>>
         \o FlattenSeq([i \in DOMAIN n.kids |->
              <<BodyLine("open", ToString(id), NoHead, 0, FALSE), HeadLine(n.kids[i], 10 * id + i)>>
              \o Body(n.kids[i], 10 * id + i, sloppy)])
         \o (IF sloppy /\ id # 1 THEN <<>>
             ELSE <<BodyLine("close", ToString(id), NoHead, 0, FALSE), Words(0, FALSE)>>)
RECURSIVE Reads(_, _)
Reads(n, id) ==
  CASE n.kind = "text" -> <<Show("text", <<10 * id + 1>>), Show("text", <<10 * id + 2>>)>>
    [] n.kind = "qp" -> <<Show("text", <<10 * id + 1, 10 * id + 2>>)>>
    [] n.kind = "cut" -> <<Show("text", <<10 * id + 1>>), Show("text", <<10 * id + 2>>)>>
    [] n.kind \in {"image", "app"} -> <<Show("attachment", <<id>>)>>
    [] n.kind = "message" -> Reads(n.kids[1], 10 * id + 1)
    [] OTHER -> FlattenSeq([i \in DOMAIN n.kids |->
                  IF n.kind = "alternative" /\ i > 1
                  THEN <<Show("alternative", <<IF n.kids[i].kind = "text" THEN 0 ELSE 10 * id + i>>)>>
                  ELSE Reads(n.kids[i], 10 * id + i)])
Ids(lines) == [i \in DOMAIN lines |-> lines[i].id]
RECURSIVE Enclosures(_, _, _)
Enclosures(n, id, sloppy) ==
  CASE n.kind \in {"text", "qp", "cut"} -> <<>>
    [] n.kind \in {"image", "app"} ->
         <<[id |-> id, type |-> n.kind, ids |-> Ids(Body(n, id, sloppy))]>>
    [] n.kind = "message" -> Enclosures(n.kids[1], 10 * id + 1, sloppy)
    [] OTHER -> FlattenSeq([i \in DOMAIN n.kids |->
                  IF n.kind = "alternative" /\ i > 1
                  THEN <<[id |-> IF n.kids[i].kind = "text" THEN 0 ELSE 10 * id + i,
                          type |-> Head0(n.kids[i], 0).ctype,
                          ids |-> Ids(Body(n.kids[i], 10 * id + i, sloppy))]>>
                  ELSE Enclosures(n.kids[i], 10 * id + i, sloppy)])
Empty == [top |-> NoHead, lines |-> <<>>, reads |-> <<>>, holds |-> <<>>]
MCArticles ==
  {Empty} \cup
  {[top |-> Head0(n, 1), lines |-> Body(n, 1, sloppy), reads |-> Reads(n, 1),
    holds |-> Enclosures(n, 1, sloppy)] : n \in Trees, sloppy \in BOOLEAN}

-------------------------------------------------------------------------------
Line(k, d, n, m, y, c) == [k |-> k, d |-> d, n |-> n, m |-> m, y |-> y, c |-> c]
Uu(k, d, n) == Line(k, d, n, 0, <<>>, <<>>)
FullLine(d) == Uu("data", d, 4)
LastLine(d) == Uu("data", d, 3)
Begin(f) == Uu("begin", f, 5)
Tick == Uu("tick", "", 1)
EndLine == Uu("end", "", 2)
Blank == Uu("text", "?", 1)
Long == Uu("text", "?", 6)
Section(f, p, t) == Line("section", f, p, t, <<>>, <<>>)
Subject(f, p, t) == [file |-> f, part |-> p, total |-> t]
NoSubject == Subject("", -1, 0)
YBegin(f, p, t, size, begin, end) == Line("ybegin", f, p, t, <<size, begin, end>>, <<>>)
YData(d) == Line("ydata", d, 1, 0, <<>>, <<>>)
YEnd(n, check, crc) == Line("yend", "", n, 0, <<>>, <<check, crc>>)

\* A file in two pieces, numbered in their subjects; text around the data.
Numbered ==
  [file |-> "u", whole |-> <<"a", "b", "c", "d">>, good |-> TRUE,
   arts |-> << [subject |-> Subject("u", 1, 2),
                lines |-> <<Long, Begin("u"), FullLine("a"), FullLine("b"), Blank, Blank>>],
               [subject |-> Subject("u", 2, 2),
                lines |-> <<Long, Uu("BEGIN", "", 3), FullLine("c"), LastLine("d"), Tick,
                            EndLine, Long>>] >>]
\* A file in three pieces, of which nothing tells how many there are.
Unnumbered ==
  [file |-> "v", whole |-> <<"a", "b", "c">>, good |-> TRUE,
   arts |-> << [subject |-> NoSubject,
                lines |-> <<Section("v", 1, 0), Begin("v"), FullLine("a"), Long>>],
               [subject |-> NoSubject,
                lines |-> <<Section("v", 2, 0), FullLine("b"), Blank>>],
               [subject |-> NoSubject,
                lines |-> <<Section("v", 3, 0), LastLine("z"), FullLine("c"), Tick, EndLine>>] >>]
\* A short file in one article.
Single ==
  [file |-> "s", whole |-> <<"a">>, good |-> TRUE,
   arts |-> << [subject |-> Subject("s", 1, 1),
                lines |-> <<Begin("s"), LastLine("a"), Tick, EndLine>>] >>]
\* Two postings of one name and size.
Piece(f, p, t, begin, data, crc) ==
  [subject |-> NoSubject,
   lines |-> <<YBegin(f, p, t, 3, begin, begin + Len(data) - 1)>>
             \o [i \in DOMAIN data |-> YData(data[i])] \o <<YEnd(Len(data), data, crc)>>]
Yenc1 ==
  [file |-> "y", whole |-> <<"a", "b", "c">>, good |-> TRUE,
   arts |-> << Piece("y", 1, 2, 1, <<"a", "b">>, <<"a", "b", "c">>),
               Piece("y", 2, 2, 3, <<"c">>, <<"a", "b", "c">>) >>]
Yenc2 ==
  [file |-> "y", whole |-> <<"d", "e", "f">>, good |-> TRUE,
   arts |-> << Piece("y", 1, 0, 1, <<"d", "e">>, <<>>),
               Piece("y", 2, 0, 3, <<"f">>, <<"d", "e", "f">>) >>]
\* A posting with checksums of its pieces only, and a damaged copy of it.
Yenc3 ==
  [file |-> "z", whole |-> <<"a", "b", "c">>, good |-> TRUE,
   arts |-> << Piece("z", 1, 2, 1, <<"a", "b">>, <<>>), Piece("z", 2, 2, 3, <<"c">>, <<>>) >>]
Damaged == [Yenc3 EXCEPT !.good = FALSE, !.whole = <<>>, !.arts[2].lines[2].d = "x"]
YencSingle ==
  [file |-> "w", whole |-> <<"a">>, good |-> TRUE,
   arts |-> << [subject |-> NoSubject,
                lines |-> <<YBegin("w", 0, 0, 1, 1, 1), YData("a"), YEnd(1, <<"a">>, <<"a">>)>>] >>]

MCPostings == {Numbered, Unnumbered, Single, Yenc1, Yenc2, Yenc3, Damaged, YencSingle}
\* What is kept of one file does not depend on another.
OneFile == Cardinality({P.file : P \in used'}) <= 1
================================================================================
