--------------------------------- MODULE Mime ----------------------------------
(***************************************************************************)
(* How trn goes through a MIME article, line by line: to show it (the      *)
(* states of libtrn/artio.cpp read_art_buf_raw) and to extract or view its *)
(* attachments (libtrn/mime.cpp mime_decode_article). Both keep a stack of *)
(* the sections they are in and one state, which mime_set_state changes as *)
(* it meets boundaries and headers.                                        *)
(*                                                                         *)
(* A line is a record: of kind "text" with an identity and soft when its   *)
(* decoding does not end the line (a quoted-printable line that goes on,   *)
(* base64 without a newline); "open" or "close" with the boundary b; "hdr" *)
(* for a header of a section with its blank line, which says h; or         *)
(* "blank", a header without a field. What HTML becomes is left out.        *)
(***************************************************************************)
EXTENDS Integers, Sequences, FiniteSets, SequencesExt

CONSTANTS
  Articles,  \* [top, lines, reads, holds]: the header, the body, and what is to be
             \* shown of it and extracted from it
  Viewed     \* the types for which mimecap has a command

ASSUME ViewedAssumption == Viewed \subseteq {"image", "app"}

VARIABLES
  art,      \* the article
  mode,     \* "read", "extract", "view"
  rest,     \* the lines that have not been read
  stack,    \* the sections, from the article to the innermost
  state,    \* g_mime.state
  acc,      \* the line of text that has begun in the buffer
  firstView, \* g_first_view: the line at which an attachment was last shown inline
  shown,    \* the lines that were shown
  tried,    \* the attachments that were given to a decoder
  skipped,  \* history: a failed decoder had consumed a boundary
  pc        \* "body", "done"

mimeVars == <<art, mode, rest, stack, state, acc, firstView, shown, tried, skipped, pc>>

-------------------------------------------------------------------------------
\* Sections.

\* mime_clear_struct
Clear == [type |-> "none", b |-> "", alt |-> FALSE, altDone |-> FALSE, inline |-> FALSE,
          enc |-> "none", id |-> 0]
Plain == [Clear EXCEPT !.type = "text"]
\* mime_parse_type: a multipart without a boundary cannot be handled.
TypeOf(h) == IF h.ctype = "multipart" /\ h.b = "" THEN "app" ELSE h.ctype
\* mime_parse_type, mime_parse_encoding, mime_parse_disposition
SectionOf(h) ==
  [type |-> TypeOf(h), b |-> IF TypeOf(h) = "multipart" THEN h.b ELSE "",
   alt |-> h.alt /\ TypeOf(h) = "multipart", altDone |-> FALSE, inline |-> h.inline,
   enc |-> h.enc, id |-> h.id]

\* The walk of mime_set_state and the readers: w.rest, w.stack, w.state, w.quiet.
Now == [rest |-> rest, stack |-> stack, state |-> state, quiet |-> FALSE]
Inner(w) == w.stack[Len(w.stack)]
Push(w) == [w EXCEPT !.stack = Append(@, Clear)]
Pop(w) == [w EXCEPT !.stack = Front(@), !.state = w.stack[Len(w.stack) - 1].type]
AtTopLevel(w) == Len(w.stack) = 1
\* Is there a boundary to come?
Enclosed(w) == \E i \in 1..(Len(w.stack) - 1) : w.stack[i].b # ""

\* A plausible mistake: only the nearest section is asked.
EndOfNearest(w, l) ==
  LET i == Len(w.stack) - 1
  IN IF i > 0 /\ l.k \in {"open", "close"} /\ w.stack[i].b = l.b THEN i ELSE 0
\* end_of_section: the innermost section whose boundary the line is, or 0.
EndOf(w, l) ==
  LET hit == {i \in 1..(Len(w.stack) - 1) :
                l.k \in {"open", "close"} /\ w.stack[i].b = l.b}
  IN IF hit = {} THEN 0 ELSE CHOOSE i \in hit : \A j \in hit : j <= i

\* mime_parse_sub_header: the header starts with the given line or, without one,
\* with the next; a line that is no header ends it and is lost.
ParseSubHeader(w, first) ==
  LET ls == first \o w.rest
      s == IF ls # <<>> /\ Head(ls).k = "hdr" THEN SectionOf(Head(ls).h) ELSE Plain
  IN [w EXCEPT !.rest = IF ls = <<>> THEN ls ELSE Tail(ls),
               !.stack[Len(w.stack)] = s, !.state = s.type, !.quiet = TRUE]

\* The first of several alternatives is taken.
Choose(w) ==
  LET p == Len(w.stack) - 1
  IN IF w.stack[p].altDone THEN [w EXCEPT !.state = "alternate"]
     ELSE [w EXCEPT !.stack[p].altDone = w.stack[p].alt]

\* A message in the article has a header of its own.
Messages(w, first) ==
  LET Descend(s, i) ==
        IF s.w.state # "message" THEN s
        ELSE [w |-> ParseSubHeader(Push(s.w), s.first), first |-> <<>>]
  IN IF w.state # "message" THEN [w |-> w, first |-> first]
     ELSE FoldLeft(Descend, [w |-> w, first |-> first], [i \in 1..(Len(w.rest) + 1) |-> i])
Multipart(w) == IF w.state = "multipart" THEN [Push(w) EXCEPT !.state = "skip"] ELSE w
\* All sections that the boundary's section holds are left, but one for its next part.
Unwind(w, i) == [w EXCEPT !.stack = SubSeq(@, 1, i + 1)]
\* mime_set_state: w.quiet when the line was used up.
SetState(w0, l) ==
  LET w1 == IF w0.state = "between" THEN Choose(ParseSubHeader(w0, <<l>>))
            ELSE [w0 EXCEPT !.quiet = FALSE]
      m == Messages(w1, IF w1.quiet THEN <<>> ELSE <<l>>)
      w2 == Multipart(m.w)
      i == IF m.first = <<>> THEN 0 ELSE EndOf(w2, l)
  IN IF i = 0 THEN w2
     ELSE IF l.k = "open" THEN [Unwind(w2, i) EXCEPT !.state = "between"]
     ELSE [Pop(Unwind(w2, i)) EXCEPT !.state = "end"]

-------------------------------------------------------------------------------
\* mime_set_article

MimeInit ==
  /\ art \in Articles
  /\ mode \in {"read", "extract", "view"}
  /\ rest = art.lines
  /\ stack = <<SectionOf(art.top)>>
  /\ state = stack[1].type
  /\ acc = <<>> /\ firstView = 0 /\ shown = <<>> /\ tried = <<>> /\ skipped = FALSE
  /\ pc = "body"
\* Plain text needs no decoding.
IsMime == ~(art.top.ctype \in {"none", "text"} /\ art.top.enc = "none")

Walked(w) == rest' = w.rest /\ stack' = w.stack /\ state' = w.state
Show(what, ids) == [what |-> what, ids |-> ids]
Separator == Show("separator", <<>>)
Shows(items) == shown' = shown \o items
\* g_art_input.line_num: a line of the header and what was shown so far.
LineNum == 1 + Len(shown)

\* A decoder reads the rest of the section. It may stop before the boundary or have
\* met it, and fail anywhere; end is the line that it read last.
Decoded(w, l) ==
  LET bs == {i \in DOMAIN w.rest : EndOf(w, w.rest[i]) # 0}
      k == IF bs = {} THEN Len(w.rest) ELSE (CHOOSE i \in bs : \A j \in bs : i <= j) - 1
      Upto(n, ok) == [w |-> [w EXCEPT !.rest = SubSeq(@, n + 1, Len(@))], ok |-> ok,
                      end |-> IF n = 0 THEN <<>> ELSE <<w.rest[n]>>,
                      try |-> [id |-> Inner(w).id, ok |-> ok,
                               ids |-> [i \in 1..Len(l \o SubSeq(w.rest, 1, IF n > k THEN k ELSE n))
                                          |-> (l \o w.rest)[i].id]]]
      most == IF bs = {} THEN k ELSE k + 1
  IN {Upto(n, TRUE) : n \in {k, most}} \cup {Upto(n, FALSE) : n \in 0..most}
\* The boundary that the decoder met, if it did, is looked at.
Resumed(d) ==
  LET w == IF d.end = <<>> THEN d.w ELSE SetState(d.w, d.end[1])
  IN IF w.state = "decode" THEN [w EXCEPT !.state = "skip"] ELSE w
AtBoundary(d) == d.end # <<>> /\ EndOf(d.w, d.end[1]) # 0

-------------------------------------------------------------------------------
\* Showing the article: read_art_buf_raw, from mime_switch on.

\* Text goes to the line that has begun.
ShowText(w, l) ==
  /\ Walked(w)
  /\ IF l.soft /\ Inner(w).enc # "none"
     THEN acc' = Append(acc, l.id) /\ UNCHANGED shown
     ELSE acc' = <<>> /\ Shows(<<Show("text", Append(acc, l.id))>>)
  /\ UNCHANGED <<firstView, tried, pc>>
\* Without a boundary to come the article ends here.
Skip(w) ==
  /\ Walked(w) /\ acc' = <<>>
  /\ pc' = IF Enclosed(w) THEN pc ELSE "done"
  /\ UNCHANGED shown
Between(w) ==
  /\ Walked(IF w.state = "end" /\ ~AtTopLevel(w) THEN [w EXCEPT !.state = "skip"] ELSE w)
  /\ pc' = IF w.state = "end" /\ AtTopLevel(w) THEN "done" ELSE pc
  /\ Shows(<<Separator>>) /\ acc' = <<>>
Describe(w) ==
  /\ Walked([w EXCEPT !.state =
                IF w.state = "image" /\ Inner(w).inline /\ firstView < LineNum
                THEN "decode" ELSE "skip"])
  /\ Shows(<<Show(IF w.state = "alternate" THEN "alternative" ELSE "attachment",
                  <<Inner(w).id>>)>>)
  /\ acc' = <<>> /\ UNCHANGED <<firstView, tried, pc>>
\* A plausible mistake: after a failure the line that the decoder read last is lost.
AfterDecoderStrict(d) == IF d.ok THEN Resumed(d) ELSE [d.w EXCEPT !.state = "skip"]
AfterDecoder(d) ==
  IF d.ok \/ AtBoundary(d) THEN Resumed(d) ELSE [d.w EXCEPT !.state = "skip"]
Inline(w, l) ==
  \E d \in Decoded(w, <<l>>) :
    /\ tried' = Append(tried, d.try) /\ firstView' = LineNum
    /\ \E v \in {AfterDecoder(d)} :
         \/ v.state \in {"between", "end"} /\ Between(v)
         \/ v.state = "skip" /\ Skip(v)
MimeSwitch(w, l) ==
  \/ w.state \in {"none", "text"} /\ ShowText(w, l)
  \/ w.state = "decode" /\ "image" \in Viewed /\ Inline(w, l)
  \/ (w.state = "skip" \/ (w.state = "decode" /\ "image" \notin Viewed))
     /\ Skip(w) /\ UNCHANGED <<firstView, tried>>
  \/ w.state \in {"between", "end"} /\ Between(w) /\ UNCHANGED <<firstView, tried>>
  \/ w.state \in {"image", "app", "alternate"} /\ Describe(w)

\* The boundary cuts off a line that has begun: it is shown first.
CutOff(w) ==
  /\ Walked(w) /\ acc' = <<>>
  /\ Shows(<<Show("text", acc), Separator>>)
  /\ pc' = IF w.state = "end" /\ AtTopLevel(w) THEN "done" ELSE pc
  /\ UNCHANGED <<firstView, tried>>

ReadLine ==
  /\ pc = "body" /\ mode = "read" /\ rest # <<>> /\ state # "image"
  /\ \E l \in {rest[1]}, w \in {[Now EXCEPT !.rest = Tail(@)]} :
       IF ~IsMime THEN ShowText(w, l)
       ELSE IF acc # <<>> /\ EndOf(w, l) # 0 THEN \E v \in {SetState(w, l)} : CutOff(v)
       ELSE \E v \in {SetState(w, l)} :
              IF v.quiet /\ v.state = "text"
              THEN Walked(v) /\ acc' = <<>> /\ UNCHANGED <<firstView, shown, tried, pc>>
              ELSE MimeSwitch(v, l)
  /\ UNCHANGED <<art, mode, skipped>>
\* An image is described without reading on.
ReadImage ==
  /\ pc = "body" /\ mode = "read" /\ state = "image"
  /\ Describe(Now) /\ UNCHANGED <<art, mode, skipped>>
\* The article ends, perhaps in the middle of a line.
ReadEnd ==
  /\ pc = "body" /\ mode = "read" /\ rest = <<>> /\ state # "image"
  /\ Shows(IF acc = <<>> THEN <<>> ELSE <<Show("text", acc)>>)
  /\ acc' = <<>> /\ pc' = "done"
  /\ UNCHANGED <<art, mode, rest, stack, state, firstView, tried, skipped>>

-------------------------------------------------------------------------------
\* mime_decode_article, with view the attachments that a command is known for.

Passed(w) ==
  /\ Walked(w) /\ UNCHANGED <<tried, skipped>>
  /\ pc' = IF w.state = "skip" /\ ~Enclosed(w) THEN "done" ELSE pc
Decode(w, first) ==
  \E d \in Decoded([w EXCEPT !.state = "decode"], first) :
    /\ tried' = Append(tried, d.try)
    /\ Walked(IF d.ok THEN Resumed(d) ELSE [d.w EXCEPT !.state = "skip"])
    /\ skipped' = (skipped \/ (~d.ok /\ AtBoundary(d)))
    /\ UNCHANGED pc
ExtractLine ==
  /\ pc = "body" /\ mode # "read" /\ IsMime /\ rest # <<>>
  /\ \E l \in {rest[1]} : \E w \in {SetState([Now EXCEPT !.rest = Tail(@)], l)} :
       \/ w.state \in {"between", "end", "skip"} /\ Passed(w)
       \/ w.state \in {"text", "message"} /\ Passed([w EXCEPT !.state = "skip"])
       \/ /\ w.state \notin {"between", "end", "skip", "text", "message"}
          /\ IF mode = "view" /\ Inner(w).type \notin Viewed
             THEN Walked([w EXCEPT !.state = "skip"]) /\ UNCHANGED <<tried, skipped, pc>>
             ELSE Decode(w, IF w.quiet \/ l.k = "blank" THEN <<>> ELSE <<l>>)
  /\ UNCHANGED <<art, mode, acc, firstView, shown>>
ExtractEnd ==
  /\ pc = "body" /\ mode # "read" /\ (rest = <<>> \/ ~IsMime)
  /\ pc' = "done"
  /\ UNCHANGED <<art, mode, rest, stack, state, acc, firstView, shown, tried, skipped>>

MimeNext == ReadLine \/ ReadImage \/ ReadEnd \/ ExtractLine \/ ExtractEnd
MimeSpec == MimeInit /\ [][MimeNext]_mimeVars

-------------------------------------------------------------------------------
\* However its parts are nested, an article is shown as it was meant: all text of the
\* first of its alternatives and of the rest of its parts, line by line, each attachment
\* by one line, and nothing of the headers and boundaries themselves.
Content(items) == SelectSeq(items, LAMBDA i : i.what # "separator")
ReadsAsMeant ==
  mode = "read" => /\ IsPrefix(Content(shown), art.reads)
                   /\ pc = "done" => Content(shown) = art.reads

\* Every attachment is given to a decoder, once and in order, and a decoder that
\* succeeds got its lines and no others; but a decoder that fails after it has read
\* the boundary takes the part that follows with it.
Wanted == IF mode = "view" THEN SelectSeq(art.holds, LAMBDA h : h.type \in Viewed)
          ELSE art.holds
EachIsExtracted ==
  mode # "read" /\ ~skipped =>
    /\ \A i \in DOMAIN tried :
         /\ i <= Len(Wanted) /\ tried[i].id = Wanted[i].id
         /\ tried[i].ok => tried[i].ids = Wanted[i].ids
    /\ pc = "done" => Len(tried) = Len(Wanted)
================================================================================
