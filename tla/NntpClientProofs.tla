---------------------------- MODULE NntpClientProofs ---------------------------
(***************************************************************************)
(* trn and the news server stay in step: a theorem about NntpClient.       *)
(*                                                                         *)
(* The calls in progress are a stack of any depth, so the invariant says   *)
(* how a frame fits those below it (Fit), what is on its way from the      *)
(* server (Flow), and what the frame on top knows of it. There is a lemma  *)
(* for each action; the ones about stacks come first.                      *)
(***************************************************************************)
EXTENDS NntpClient, TLAPS

-------------------------------------------------------------------------------
\* Labels by the function that runs them.
CommandFam == {"command", "protected", "write"}
Excursion == {"reconnected", "regrouped", "repeated"}
TimeoutFam == {"timeout"} \cup Excursion
CheckFam == {"check", "timedOut", "checked", "upgraded", "resent", "authorised"}
AskFam == {"ask", "asked", "answered"}
RefreshFam == {"refresh", "capsAsked", "capsAnswered"}
TlsFam == {"require", "startTls", "tlsAnswered", "tlsRefreshed", "tlsRegrouped",
           "tlsRestored"}
AuthRest == {"authLoop", "authSafe", "userAnswered", "passAnswered",
             "authUpgraded", "authRefreshed", "authDone", "authResent"}
AuthFam == {"auth"} \cup AuthRest
ConnectFam == {"connect", "greeted", "discovered", "secured", "readerAsked",
               "readerAnswered", "rediscovered", "resecured"}
QuitFam == {"quit", "quitAnswered"}

\* Where a function may be called from, and which functions may be the first.
Senders == {"asked", "capsAsked", "readerAsked", "resent", "repeated", "authResent"}
Callers(label) ==
  IF label \in CommandFam THEN Senders
  ELSE IF label \in TimeoutFam THEN Senders \cup {"timedOut"}
  ELSE IF label \in AuthFam THEN Senders \cup {"authorised"}
  ELSE IF label \in CheckFam
       THEN {"answered", "capsAnswered", "greeted", "readerAnswered"}
  ELSE IF label \in AskFam
       THEN {"regrouped", "tlsAnswered", "tlsRegrouped", "tlsRestored",
             "userAnswered", "passAnswered", "quitAnswered"}
  ELSE IF label \in RefreshFam
       THEN {"tlsRefreshed", "authRefreshed", "discovered", "rediscovered"}
  ELSE IF label \in TlsFam
       THEN {"protected", "upgraded", "authSafe", "authUpgraded", "secured",
             "resecured"}
  ELSE IF label \in ConnectFam THEN {"reconnected"}
  ELSE {}
Outer == AskFam \cup ConnectFam \cup QuitFam

\* Commands with a reply of several lines: those of the reader, and the one of
\* nntp_refresh_capabilities.
Heavy(cmd) ==
  cmd.verb \notin {"CAPABILITIES", "STARTTLS", "AUTHINFO_USER", "AUTHINFO_PASS",
                   "MODE_READER", "QUIT", "GROUP", "STAT"}
Caps(cmd) == cmd.verb = "CAPABILITIES"
Long(cmd) == cmd.verb \in {"LIST", "ARTICLE", "BODY"}

\* Labels under which such a command of the reader may be under way, labels of
\* frames that hold the command they are about, and labels that go by the last
\* command instead.
Carriers == {"asked", "answered", "resent", "repeated", "authResent", "timedOut",
             "authorised"}
Resenders == Excursion \cup AuthRest \cup {"upgraded", "resent", "authorised"}
Holding == CommandFam \cup AskFam \cup Resenders
Reading == {"check", "checked", "timedOut", "timeout"}
Watching == Reading \cup {"auth"}

-------------------------------------------------------------------------------
\* A frame that may be on the way of a long reply to the reader's command.
Carries(f) == f.at \in Carriers /\ (f.at \in Holding => Heavy(f.cmd))

\* How the frame in place i of a stack fits those below it.
CarriedBelow(st, i) == \A j \in (i+1)..Len(st) : Carries(st[j])
NoneBelow(st, i, labels) == \A j \in (i+1)..Len(st) : st[j].at \notin labels
Bulk(st, i, asked) == Long(asked) /\ CarriedBelow(st, i)
Greetless(st, i) == NoneBelow(st, i, {"greeted"})
MatchAuth(cmd, below) ==
  IF below.at = "authorised" THEN cmd = below.cmd ELSE cmd.verb # "MODE_READER"
CapsAt(st, i) ==
  \/ st[i].at \in {"capsAsked", "capsAnswered"}
  \/ st[i].at \in {"resent", "repeated", "authResent", "authorised"} /\ Caps(st[i].cmd)
  \/ st[i].at = "timedOut" /\ i < Len(st) /\ st[i+1].at = "capsAnswered"

FitCaps(st, i, last) ==
  /\ st[i].at \in CommandFam \cup Resenders /\ Caps(st[i].cmd) => CapsAt(st, i+1)
  /\ st[i].at \in {"timeout", "auth"} /\ Caps(last) /\ Greetless(st, i)
       => CapsAt(st, i+1)
  /\ st[i].at \in {"check", "checked"} /\ Caps(last)
       => st[i+1].at \in {"capsAnswered", "greeted"}

IsFrame(f) == DOMAIN f = {"at", "cmd", "note"}

Fit(st, i, asked, phase, last, ok) ==
  /\ IsFrame(st[i])
  /\ i = Len(st) => st[i].at \in Outer /\ (st[i].at \in ConnectFam => phase = "opening")
  /\ i # Len(st) => st[i+1].at \in Callers(st[i].at)
  /\ st[i].at \in Holding /\ Heavy(st[i].cmd) => Bulk(st, i, asked)
  /\ st[i].at \in Watching /\ Heavy(last) /\ Greetless(st, i) => Bulk(st, i, asked)
  /\ st[i].at \notin Reading => Greetless(st, i)
  /\ st[i].at \in Excursion => NoneBelow(st, i, Excursion)
  /\ st[i].at \in AskFam => ~Caps(st[i].cmd)
  /\ st[i].at \in AuthRest => MatchAuth(st[i].cmd, st[i+1])
  /\ st[i].at = "authResent" => st[i].cmd.verb # "MODE_READER"
  /\ st[i].at = "auth" => MatchAuth(last, st[i+1])
  /\ ok => FitCaps(st, i, last)

IsSeq(st) == \E S : st \in Seq(S)
Under(st, asked, phase, last, ok) ==
  IsSeq(st) /\ \A i \in 2..Len(st) : Fit(st, i, asked, phase, last, ok)
Whole(st, asked, phase, last, ok) ==
  IsSeq(st) /\ \A i \in 1..Len(st) : Fit(st, i, asked, phase, last, ok)

Has(st, labels) == \E i \in 1..Len(st) : st[i].at \in labels

-------------------------------------------------------------------------------
\* hi is lo with c on top.
Pushes(hi, c, lo) ==
  /\ IsSeq(hi) /\ IsSeq(lo)
  /\ Len(lo) \in Nat /\ Len(hi) = Len(lo) + 1
  /\ hi[1] = c /\ hi # <<>>
  /\ \A j \in 1..Len(lo) : hi[j+1] = lo[j]

LEMMA TailIs ==
  ASSUME NEW st, IsSeq(st), st # <<>>
  PROVE  /\ Pushes(st, Head(st), Tail(st))
         /\ Head(st) = st[1]
         /\ Tail(st) = <<>> <=> Len(Tail(st)) = 0
<1>1. PICK S : st \in Seq(S)
  BY DEF IsSeq
<1>2. Tail(st) \in Seq(S) /\ Len(Tail(st)) = Len(st) - 1 /\ Len(st) \in Nat /\ Len(st) # 0
  BY <1>1
<1>3. \A j \in 1..Len(Tail(st)) : st[j+1] = Tail(st)[j]
  BY <1>1, <1>2
<1>4. Head(st) = st[1]
  BY <1>1
<1>5. Tail(st) = <<>> <=> Len(Tail(st)) = 0
  BY <1>2
<1> QED
  BY <1>1, <1>2, <1>3, <1>4, <1>5 DEF Pushes, IsSeq

LEMMA PushIs ==
  ASSUME NEW st, IsSeq(st), NEW c
  PROVE  Pushes(<<c>> \o st, c, st)
<1>1. PICK S : st \in Seq(S)
  BY DEF IsSeq
<1>2. st \in Seq(S \cup {c}) /\ <<c>> \in Seq(S \cup {c})
  BY <1>1
<1> QED
  BY <1>1, <1>2 DEF IsSeq, Pushes

LEMMA TwoIs ==
  ASSUME NEW st, IsSeq(st), NEW c, NEW t
  PROVE  Pushes(<<c, t>> \o st, c, <<t>> \o st)
<1>1. PICK S : st \in Seq(S)
  BY DEF IsSeq
<1>2. st \in Seq(S \cup {c, t}) /\ <<c, t>> \in Seq(S \cup {c, t})
      /\ <<t>> \in Seq(S \cup {c, t})
  BY <1>1
<1>3. <<c, t>> \o st \in Seq(S \cup {c, t}) /\ <<t>> \o st \in Seq(S \cup {c, t})
      /\ Len(<<c, t>> \o st) = Len(st) + 2 /\ Len(<<t>> \o st) = Len(st) + 1
      /\ Len(st) \in Nat
  BY <1>2
<1>4. (<<c, t>> \o st)[1] = c
  BY <1>2
<1>5. \A j \in 1..(Len(st) + 1) : (<<c, t>> \o st)[j+1] = (<<t>> \o st)[j]
  BY <1>2
<1> QED
  BY <1>3, <1>4, <1>5 DEF IsSeq, Pushes

LEMMA HasIs ==
  ASSUME NEW hi, NEW c, NEW lo, Pushes(hi, c, lo), NEW labels
  PROVE  Has(hi, labels) <=> c.at \in labels \/ Has(lo, labels)
<1>1. ASSUME NEW i \in 1..Len(hi), hi[i].at \in labels
      PROVE  c.at \in labels \/ Has(lo, labels)
  <2>1. CASE i = 1
    BY <1>1, <2>1 DEF Pushes
  <2>2. CASE i # 1
    <3>1. i - 1 \in 1..Len(lo) /\ lo[i-1] = hi[i]
      <4>1. i - 1 \in 1..Len(lo) /\ (i - 1) + 1 = i
        BY <2>2 DEF Pushes
      <4> QED
        BY <4>1 DEF Pushes
    <3> QED
      BY <1>1, <3>1 DEF Has
  <2> QED
    BY <2>1, <2>2
<1>2. ASSUME NEW i \in 1..Len(lo), lo[i].at \in labels
      PROVE  Has(hi, labels)
  <2>1. i + 1 \in 1..Len(hi) /\ hi[i+1] = lo[i]
    BY DEF Pushes
  <2> QED
    BY <1>2, <2>1 DEF Has
<1>3. c.at \in labels => Has(hi, labels)
  BY DEF Has, Pushes
<1> QED
  BY <1>1, <1>2, <1>3 DEF Has

-------------------------------------------------------------------------------
\* The same of a frame c over the stack lo.
AllCarry(lo) == \A j \in 1..Len(lo) : Carries(lo[j])
Bulky(lo, asked) == Long(asked) /\ AllCarry(lo)
NoGreeted(lo) == ~Has(lo, {"greeted"})
Fits(c, lo, asked, phase, last, ok) ==
  /\ IsFrame(c)
  /\ lo = <<>> => c.at \in Outer /\ (c.at \in ConnectFam => phase = "opening")
  /\ lo # <<>> => lo[1].at \in Callers(c.at)
  /\ c.at \in Holding /\ Heavy(c.cmd) => Bulky(lo, asked)
  /\ c.at \in Watching /\ Heavy(last) /\ NoGreeted(lo) => Bulky(lo, asked)
  /\ c.at \notin Reading => NoGreeted(lo)
  /\ c.at \in Excursion => ~Has(lo, Excursion)
  /\ c.at \in AskFam => ~Caps(c.cmd)
  /\ c.at \in AuthRest => MatchAuth(c.cmd, lo[1])
  /\ c.at = "authResent" => c.cmd.verb # "MODE_READER"
  /\ c.at = "auth" => MatchAuth(last, lo[1])
  /\ ok =>
       /\ c.at \in CommandFam \cup Resenders /\ Caps(c.cmd) => CapsAt(lo, 1)
       /\ c.at \in {"timeout", "auth"} /\ Caps(last) /\ NoGreeted(lo) => CapsAt(lo, 1)
       /\ c.at \in {"check", "checked"} /\ Caps(last)
            => lo[1].at \in {"capsAnswered", "greeted"}

LEMMA Beneath ==
  ASSUME NEW hi, NEW c, NEW lo, Pushes(hi, c, lo)
  PROVE  /\ CarriedBelow(hi, 1) <=> AllCarry(lo)
         /\ \A labels : NoneBelow(hi, 1, labels) <=> ~Has(lo, labels)
         /\ AllCarry(hi) <=> Carries(c) /\ AllCarry(lo)
<1>1. ASSUME NEW j \in 1..Len(lo)
      PROVE  j + 1 \in (1+1)..Len(hi) /\ j + 1 \in 1..Len(hi) /\ hi[j+1] = lo[j]
  BY DEF Pushes
<1>2. ASSUME NEW j \in (1+1)..Len(hi)
      PROVE  j - 1 \in 1..Len(lo) /\ hi[j] = lo[j-1]
  <2>1. j - 1 \in 1..Len(lo) /\ (j - 1) + 1 = j
    BY DEF Pushes
  <2> QED
    BY <2>1 DEF Pushes
<1>3. CarriedBelow(hi, 1) => AllCarry(lo)
  BY <1>1 DEF CarriedBelow, AllCarry
<1>4. AllCarry(lo) => CarriedBelow(hi, 1)
  BY <1>2 DEF CarriedBelow, AllCarry
<1>5. ASSUME NEW labels
      PROVE  NoneBelow(hi, 1, labels) <=> ~Has(lo, labels)
  <2>1. NoneBelow(hi, 1, labels) => ~Has(lo, labels)
    BY <1>1 DEF NoneBelow, Has
  <2>2. ~Has(lo, labels) => NoneBelow(hi, 1, labels)
    BY <1>2 DEF NoneBelow, Has
  <2> QED
    BY <2>1, <2>2
<1>6. AllCarry(hi) <=> Carries(c) /\ CarriedBelow(hi, 1)
  <2>1. Len(hi) \in Nat /\ Len(hi) >= 1 /\ hi[1] = c
    BY DEF Pushes
  <2>2. \A j \in 1..Len(hi) : j = 1 \/ j \in (1+1)..Len(hi)
    BY <2>1
  <2>3. \A j \in (1+1)..Len(hi) : j \in 1..Len(hi)
    BY <2>1
  <2> QED
    BY <2>1, <2>2, <2>3 DEF AllCarry, CarriedBelow
<1> QED
  BY <1>3, <1>4, <1>5, <1>6

-------------------------------------------------------------------------------
\* A frame fits by itself and those below it.
LEMMA BelowShifts ==
  ASSUME NEW hi, NEW c, NEW lo, Pushes(hi, c, lo), NEW i \in 1..Len(lo), NEW labels
  PROVE  /\ CarriedBelow(hi, i+1) <=> CarriedBelow(lo, i)
         /\ NoneBelow(hi, i+1, labels) <=> NoneBelow(lo, i, labels)
<1>1. ASSUME NEW j \in (i+1)..Len(lo)
      PROVE  j + 1 \in ((i+1)+1)..Len(hi) /\ hi[j+1] = lo[j]
  BY DEF Pushes
<1>2. ASSUME NEW j \in ((i+1)+1)..Len(hi)
      PROVE  j - 1 \in (i+1)..Len(lo) /\ hi[j] = lo[j-1]
  <2>1. j - 1 \in 1..Len(lo) /\ (j - 1) + 1 = j
    BY DEF Pushes
  <2> QED
    BY <2>1 DEF Pushes
<1>3. CarriedBelow(hi, i+1) => CarriedBelow(lo, i)
  BY <1>1 DEF CarriedBelow
<1>4. CarriedBelow(lo, i) => CarriedBelow(hi, i+1)
  BY <1>2 DEF CarriedBelow
<1>5. NoneBelow(hi, i+1, labels) => NoneBelow(lo, i, labels)
  BY <1>1 DEF NoneBelow
<1>6. NoneBelow(lo, i, labels) => NoneBelow(hi, i+1, labels)
  BY <1>2 DEF NoneBelow
<1> QED
  BY <1>3, <1>4, <1>5, <1>6

LEMMA CapsShifts ==
  ASSUME NEW hi, NEW c, NEW lo, Pushes(hi, c, lo), NEW i \in 1..Len(lo)
  PROVE  CapsAt(hi, i+1) <=> CapsAt(lo, i)
<1>1. hi[i+1] = lo[i] /\ (i + 1 < Len(hi) <=> i < Len(lo))
  BY DEF Pushes
<1>2. i < Len(lo) => hi[(i+1)+1] = lo[i+1]
  BY DEF Pushes
<1> QED
  BY <1>1, <1>2 DEF CapsAt

LEMMA FitShifts ==
  ASSUME NEW hi, NEW c, NEW lo, Pushes(hi, c, lo), NEW i \in 1..Len(lo),
         NEW k, k = i + 1, NEW asked, NEW phase, NEW last, NEW ok
  PROVE  Fit(hi, k, asked, phase, last, ok) <=> Fit(lo, i, asked, phase, last, ok)
<1> SUFFICES Fit(hi, i+1, asked, phase, last, ok) <=> Fit(lo, i, asked, phase, last, ok)
  OBVIOUS
<1>1. hi[i+1] = lo[i] /\ (i + 1 = Len(hi) <=> i = Len(lo))
  BY DEF Pushes
<1>0. /\ Bulk(hi, i+1, asked) <=> Bulk(lo, i, asked)
      /\ Greetless(hi, i+1) <=> Greetless(lo, i)
      /\ NoneBelow(hi, i+1, Excursion) <=> NoneBelow(lo, i, Excursion)
  BY BelowShifts DEF Bulk, Greetless
<1>2. CASE i = Len(lo)
  <2>1. SUFFICES ASSUME lo[i].at \in Outer
                 PROVE  Fit(hi, i+1, asked, phase, last, ok)
                          <=> Fit(lo, i, asked, phase, last, ok)
    BY <1>1, <1>2 DEF Fit
  <2>2. lo[i].at \notin AuthFam \cup CommandFam \cup Resenders \cup {"timeout", "check", "checked"}
    BY <2>1 DEF Outer, AuthFam, AuthRest, CommandFam, Resenders, Excursion, AskFam,
                ConnectFam, QuitFam
  <2>3. lo[i].at \notin AuthRest /\ lo[i].at # "auth" /\ lo[i].at # "timeout"
        /\ lo[i].at \notin CommandFam \cup Resenders /\ lo[i].at \notin {"check", "checked"}
    BY <2>2 DEF AuthFam
  <2>4. FitCaps(hi, i+1, last) /\ FitCaps(lo, i, last)
    BY <1>1, <2>3 DEF FitCaps
  <2> QED
    BY <1>0, <1>1, <1>2, <2>3, <2>4 DEF Fit
<1>3. CASE i # Len(lo)
  <2>1. i + 1 \in 1..Len(lo) /\ hi[(i+1)+1] = lo[i+1]
    BY <1>3 DEF Pushes
  <2>2. CapsAt(lo, i+1) <=> CapsAt(hi, (i+1)+1)
    BY <2>1, CapsShifts
  <2>3. FitCaps(hi, i+1, last) <=> FitCaps(lo, i, last)
    BY <1>0, <1>1, <2>1, <2>2 DEF FitCaps
  <2>4. Fit(hi, i+1, asked, phase, last, ok) => Fit(lo, i, asked, phase, last, ok)
    BY <1>0, <1>1, <1>3, <2>1, <2>3 DEF Fit
  <2>5. Fit(lo, i, asked, phase, last, ok) => Fit(hi, i+1, asked, phase, last, ok)
    BY <1>0, <1>1, <1>3, <2>1, <2>3 DEF Fit
  <2> QED
    BY <2>4, <2>5
<1> QED
  BY <1>2, <1>3

LEMMA FitTop ==
  ASSUME NEW hi, NEW c, NEW lo, Pushes(hi, c, lo),
         NEW asked, NEW phase, NEW last, NEW ok
  PROVE  Fit(hi, 1, asked, phase, last, ok) <=> Fits(c, lo, asked, phase, last, ok)
<1>1. hi[1] = c /\ (1 = Len(hi) <=> lo = <<>>)
  <2>1. PICK S : lo \in Seq(S)
    BY DEF Pushes, IsSeq
  <2> QED
    BY <2>1 DEF Pushes
<1>2. /\ Bulk(hi, 1, asked) <=> Bulky(lo, asked)
      /\ Greetless(hi, 1) <=> NoGreeted(lo)
      /\ NoneBelow(hi, 1, Excursion) <=> ~Has(lo, Excursion)
  BY Beneath DEF Bulk, Bulky, Greetless, NoGreeted
<1>3. CASE lo = <<>>
  <2>1. SUFFICES ASSUME c.at \in Outer
                 PROVE  Fit(hi, 1, asked, phase, last, ok)
                          <=> Fits(c, lo, asked, phase, last, ok)
    BY <1>1, <1>3 DEF Fit, Fits
  <2>2. c.at \notin AuthRest /\ c.at # "auth" /\ c.at # "timeout"
        /\ c.at \notin CommandFam \cup Resenders /\ c.at \notin {"check", "checked"}
    BY <2>1 DEF Outer, AuthFam, AuthRest, CommandFam, Resenders, Excursion, AskFam,
                ConnectFam, QuitFam
  <2> QED
    BY <1>1, <1>2, <1>3, <2>2 DEF Fit, Fits, FitCaps
<1>4. CASE lo # <<>>
  <2>1. 1 \in 1..Len(lo) /\ hi[1+1] = lo[1]
    <3>1. 1 \in 1..Len(lo)
      BY <1>1, <1>4 DEF Pushes
    <3> QED
      BY <3>1 DEF Pushes
  <2>2. CapsAt(lo, 1) <=> CapsAt(hi, 1+1)
    BY <2>1, CapsShifts
  <2>3. Fit(hi, 1, asked, phase, last, ok) => Fits(c, lo, asked, phase, last, ok)
    BY <1>1, <1>2, <1>4, <2>1, <2>2 DEF Fit, Fits, FitCaps
  <2>4. Fits(c, lo, asked, phase, last, ok) => Fit(hi, 1, asked, phase, last, ok)
    BY <1>1, <1>2, <1>4, <2>1, <2>2 DEF Fit, Fits, FitCaps
  <2> QED
    BY <2>3, <2>4
<1> QED
  BY <1>3, <1>4

-------------------------------------------------------------------------------
\* What a return, a new top and a call leave of a stack that fits.
LEMMA Popped ==
  ASSUME NEW st, st # <<>>, NEW asked, NEW phase, NEW last, NEW ok,
         Under(st, asked, phase, last, ok)
  PROVE  Whole(Tail(st), asked, phase, last, ok)
<1>1. Pushes(st, Head(st), Tail(st))
  BY TailIs DEF Under
<1>2. ASSUME NEW i \in 1..Len(Tail(st))
      PROVE  Fit(Tail(st), i, asked, phase, last, ok)
  <2>1. i + 1 \in 2..Len(st)
    BY <1>1 DEF Pushes
  <2> QED
    BY <1>1, <2>1, FitShifts DEF Under
<1> QED
  BY <1>1, <1>2 DEF Whole, Pushes

LEMMA Pushed ==
  ASSUME NEW hi, NEW c, NEW lo, Pushes(hi, c, lo),
         NEW asked, NEW phase, NEW last, NEW ok,
         Whole(lo, asked, phase, last, ok), Fit(hi, 1, asked, phase, last, ok)
  PROVE  Whole(hi, asked, phase, last, ok)
<1>1. ASSUME NEW i \in 1..Len(hi), i # 1
      PROVE  Fit(hi, i, asked, phase, last, ok)
  <2>1. i - 1 \in 1..Len(lo) /\ (i - 1) + 1 = i
    BY <1>1 DEF Pushes
  <2>2. Fit(lo, i - 1, asked, phase, last, ok)
    BY <2>1 DEF Whole
  <2> QED
    BY <2>1, <2>2, FitShifts
<1> QED
  BY <1>1 DEF Whole, Pushes

LEMMA NewLast ==
  ASSUME NEW st, NEW asked, NEW phase, NEW last, NEW ok, NEW new,
         Whole(st, asked, phase, last, ok), Heavy(new) => Bulk(st, 1, asked)
  PROVE  Under(st, asked, phase, new, ok)
<1>1. ASSUME NEW i \in 2..Len(st)
      PROVE  Fit(st, i, asked, phase, new, ok)
  <2>0. Len(st) \in Nat
    BY DEF Whole, IsSeq
  <2>1. Fit(st, i, asked, phase, last, ok) /\ Fit(st, i - 1, asked, phase, last, ok)
    BY <2>0 DEF Whole
  <2>2. i - 1 # Len(st) /\ (i - 1) + 1 = i
    BY <2>0
  <2>3. st[i].at \in Callers(st[i-1].at)
    BY <2>1, <2>2 DEF Fit
  <2>4. st[i].at \notin {"check", "checked", "timeout", "auth"}
    BY <2>3 DEF Callers, Senders, CommandFam, TimeoutFam, AuthFam, AuthRest, CheckFam,
                AskFam, RefreshFam, TlsFam, ConnectFam, Excursion
  <2>5. Heavy(new) => Bulk(st, i, asked)
    BY <2>0 DEF Bulk, CarriedBelow
  <2>6. FitCaps(st, i, last) => FitCaps(st, i, new)
    BY <2>4 DEF FitCaps
  <2> QED
    BY <2>1, <2>4, <2>5, <2>6 DEF Fit
<1> QED
  BY <1>1 DEF Under, Whole

LEMMA SameLast ==
  ASSUME NEW st, NEW asked, NEW phase, NEW last, NEW ok,
         Whole(st, asked, phase, last, ok)
  PROVE  Under(st, asked, phase, last, ok)
<1>1. Len(st) \in Nat
  BY DEF Whole, IsSeq
<1> QED
  BY <1>1 DEF Whole, Under

\* The top of a stack is replaced, or replaced and called upon.
LEMMA Jumped ==
  ASSUME NEW st, st # <<>>, NEW asked, NEW phase, NEW last, NEW ok,
         Under(st, asked, phase, last, ok), NEW f,
         Fits(f, Tail(st), asked, phase, last, ok)
  PROVE  Whole(<<f>> \o Tail(st), asked, phase, last, ok)
<1>1. Whole(Tail(st), asked, phase, last, ok)
  BY Popped
<1>2. Pushes(<<f>> \o Tail(st), f, Tail(st))
  BY <1>1, PushIs DEF Whole
<1> QED
  BY <1>1, <1>2, FitTop, Pushed

LEMMA Called ==
  ASSUME NEW st, st # <<>>, NEW asked, NEW phase, NEW last, NEW ok,
         Under(st, asked, phase, last, ok), NEW t, NEW c,
         Fits(t, Tail(st), asked, phase, last, ok),
         Fits(c, <<t>> \o Tail(st), asked, phase, last, ok)
  PROVE  Whole(<<c, t>> \o Tail(st), asked, phase, last, ok)
<1>1. Whole(<<t>> \o Tail(st), asked, phase, last, ok)
  BY Jumped
<1>2. IsSeq(Tail(st))
  BY TailIs DEF Under, Pushes
<1>3. Pushes(<<c, t>> \o Tail(st), c, <<t>> \o Tail(st))
  BY <1>2, TwoIs
<1> QED
  BY <1>1, <1>3, FitTop, Pushed

-------------------------------------------------------------------------------
\* The invariant. The records have their fields, and results are in range.
Shapes ==
  /\ DOMAIN s = {"ser", "last", "late", "idle", "handling", "allowTimeout", "up",
                 "known", "caps", "cmdOk", "security", "auth", "force", "tlsTried",
                 "group", "art"}
  /\ DOMAIN srv = {"up", "tls", "authed", "user", "group", "art", "out"}
  /\ DOMAIN reader = {"phase", "inNg", "group", "body", "asked", "calls"}
  /\ ret \in -2..1

\* handling_timeout was not left set by a timeout that failed.
Orderly == s.handling => Has(stack, Excursion)
Stacked(ok) == Whole(stack, reader.asked, reader.phase, s.last, ok)
StackOK == Stacked(Orderly)

\* A reply is to be read: a command was sent and its check has not come yet.
InFlight ==
  /\ stack # <<>>
  /\ \/ Top.at = "check"
     \/ Top.at \in Senders /\ ret = 1
     \/ Top.at = "timedOut" /\ ret = 1
     \/ Top.at = "authorised" /\ ret = 1 /\ Top.cmd.verb # "MODE_READER"

\* Nothing, or the rest of a long reply.
Leftover == srv.out \in {<<>>, <<Data>>}
Manifold(code) == code \in {101, 215, 220}
\* The reply to the last command, alone and whole, or nothing and no connection.
Coming ==
  \/ ~srv.up /\ Leftover
  \/ \E r :
       /\ srv.out = IF Manifold(r.code) THEN <<r, Data>> ELSE <<r>>
       /\ r.code \in {215, 220} => Heavy(s.last)
       /\ r.code = 101 => Caps(s.last)
Unread == srv.up /\ srv.out # <<>>
\* No reply is under way. What is left of a long one is known to be unread, and
\* there is no call that would repeat a command.
Quiet == Leftover /\ (Unread => ~s.cmdOk /\ ~Has(stack, {"timedOut"}))
\* The two places that do not know it: the list of capabilities that
\* nntp_refresh_capabilities is about to read, and the reader's own long reply.
UnreadCaps ==
  /\ ret = 1 /\ s.ser.code = 101 /\ ~s.cmdOk
  /\ \/ At("capsAnswered")
     \/ At("checked") /\ stack[2].at = "capsAnswered"
UnreadLong ==
  /\ ret = 1 /\ Long(reader.asked)
  /\ \/ /\ At("checked") /\ Len(stack) = 2
        /\ stack[2].at = "answered" /\ s.ser.code \in {215, 220}
     \/ At("answered") /\ Len(stack) = 1
     \/ stack = <<>> /\ reader.phase \in {"fetching", "listing"}
Flow ==
  /\ srv.up => s.up
  /\ InFlight => Coming
  /\ ~InFlight => Quiet \/ (Leftover /\ (UnreadCaps \/ UnreadLong))

\* What the frames at the top know: a command is sent to a quiet connection.
WriteOK == At("write") => s.last = Top.cmd /\ ~Unread
\* A greeting has one line; a timeout while it is awaited does not reconnect.
GreetOK ==
  /\ Len(stack) >= 2 /\ stack[2].at = "greeted" =>
       /\ Top.at = "check" =>
            srv.out = <<>> \/ \E r : srv.out = <<r>> /\ r.code = 200
       /\ Top.at = "checked" => s.ser.code \in {200, 205, 503}
       /\ Top.at = "timedOut" => s.ser.code = 503 /\ ret # 1
  /\ Len(stack) >= 3 /\ stack[3].at = "greeted" /\ Top.at = "timeout" =>
       s.handling /\ s.ser.code = 503
\* The reply under way is long only if those who will read it expect that.
AnswerOK ==
  InFlight /\ Top.at # "check" =>
    /\ Heavy(s.last) => Long(reader.asked) /\ AllCarry(stack)
    /\ Caps(s.last) /\ Orderly => CapsAt(stack, 1)
WaitOK ==
  At("timedOut") /\ Caps(s.last) /\ Orderly
    => stack[2].at \in {"capsAnswered", "greeted"}
\* handling_timeout is set while a timeout is being handled; it may stay set.
HandlingOK == Has(stack, Excursion) => s.handling
\* Only the reader's own commands have a long reply, and only in its time.
PhaseOK ==
  /\ reader.phase \in {"start", "opening"} => ~s.allowTimeout
  /\ stack # <<>> /\ Long(reader.asked) => reader.phase \in {"fetching", "listing"}
  /\ reader.phase = "entering" => ~Long(reader.asked)

FInv ==
  /\ Shapes /\ StackOK /\ Flow /\ WriteOK /\ GreetOK /\ AnswerOK /\ WaitOK
  /\ HandlingOK /\ PhaseOK

\* Replies of one line, and of several.
LEMMA ReplyIs ==
  ASSUME NEW r
  PROVE  /\ <<r>> # <<>> /\ Head(<<r>>) = r /\ Tail(<<r>>) = <<>>
         /\ <<r, Data>> # <<>> /\ Head(<<r, Data>>) = r /\ Tail(<<r, Data>>) = <<Data>>
<1>1. <<r>> \in Seq({r}) /\ <<r, Data>> \in Seq({r, Data})
  OBVIOUS
<1>2. <<r>> # <<>> /\ <<r, Data>> # <<>>
  BY <1>1
<1>3. Head(<<r>>) = r /\ Head(<<r, Data>>) = r
  BY <1>1
<1>4. Tail(<<r>>) = <<>>
  BY <1>1
<1>5. Tail(<<r, Data>>) = <<Data>>
  <2>1. Tail(<<r, Data>>) \in Seq({r, Data}) /\ <<Data>> \in Seq({r, Data})
    BY <1>1
  <2>2. Len(Tail(<<r, Data>>)) = 1 /\ Tail(<<r, Data>>)[1] = Data
    BY <1>1
  <2> QED
    BY <2>1, <2>2
<1> QED
  BY <1>2, <1>3, <1>4, <1>5

LEMMA InStep == FInv => AnswerIsComing /\ NothingLeftUnread
<1> SUFFICES ASSUME FInv
             PROVE  AnswerIsComing /\ NothingLeftUnread
  OBVIOUS
<1>1. AnswerIsComing
  <2> SUFFICES ASSUME At("check")
               PROVE  srv.out # <<>> \/ ~srv.up
    BY DEF AnswerIsComing
  <2>1. Coming
    BY DEF FInv, Flow, InFlight, At
  <2> QED
    BY <2>1, ReplyIs DEF Coming
<1>2. NothingLeftUnread
  BY DEF FInv, NothingLeftUnread, WriteOK, Unread
<1> QED
  BY <1>1, <1>2

-------------------------------------------------------------------------------
\* What the top of the stack is known to be.
Suits(c, lo) == Fits(c, lo, reader.asked, reader.phase, s.last, Orderly)

LEMMA TopFits ==
  ASSUME FInv, stack # <<>>
  PROVE  /\ Pushes(stack, Top, Tail(stack)) /\ IsSeq(Tail(stack))
         /\ Top = stack[1]
         /\ Suits(Top, Tail(stack))
         /\ \A labels : Has(stack, labels) <=> Top.at \in labels \/ Has(Tail(stack), labels)
         /\ AllCarry(stack) <=> Carries(Top) /\ AllCarry(Tail(stack))
         /\ Tail(stack) # <<>> =>
              Len(stack) >= 2 /\ stack[2] = Tail(stack)[1] /\ stack[2].at \in Callers(Top.at)
<1>1. IsSeq(stack) /\ Fit(stack, 1, reader.asked, reader.phase, s.last, Orderly)
  <2>1. Stacked(Orderly)
    BY DEF FInv, StackOK
  <2>2. 1 \in 1..Len(stack)
    <3>1. PICK S : stack \in Seq(S)
      BY <2>1 DEF Stacked, Whole, IsSeq
    <3> QED
      BY <3>1
  <2> QED
    BY <2>1, <2>2 DEF Stacked, Whole
<1>2. Pushes(stack, Top, Tail(stack)) /\ Top = stack[1]
  BY <1>1, TailIs DEF Top
<1>3. Suits(Top, Tail(stack))
  BY <1>1, <1>2, FitTop DEF Suits
<1>4. \A labels : Has(stack, labels) <=> Top.at \in labels \/ Has(Tail(stack), labels)
  BY <1>2, HasIs
<1>5. AllCarry(stack) <=> Carries(Top) /\ AllCarry(Tail(stack))
  BY <1>2, Beneath
<1>6. ASSUME Tail(stack) # <<>>
      PROVE  Len(stack) >= 2 /\ stack[2] = Tail(stack)[1] /\ stack[2].at \in Callers(Top.at)
  <2>1. 1 \in 1..Len(Tail(stack)) /\ Len(stack) >= 2
    BY <1>1, <1>2, <1>6, TailIs DEF Pushes
  <2>2. stack[1+1] = Tail(stack)[1]
    BY <1>2, <2>1 DEF Pushes
  <2> QED
    BY <1>3, <1>6, <2>1, <2>2 DEF Suits, Fits
<1> QED
  BY <1>2, <1>3, <1>4, <1>5, <1>6 DEF Pushes

LEMMA Weaker ==
  ASSUME NEW st, NEW asked, NEW phase, NEW last, NEW ok, NEW ok2, ok2 => ok,
         Whole(st, asked, phase, last, ok)
  PROVE  Whole(st, asked, phase, last, ok2)
  BY DEF Whole, Fit

\* What a step leaves as it was, and how little it may leave unread.
Settled ==
  /\ Shapes'
  /\ reader'.asked = reader.asked /\ reader'.phase = reader.phase
  /\ s'.handling = s.handling /\ s'.allowTimeout = s.allowTimeout
LastFits == s'.last # s.last /\ Heavy(s'.last) => Bulky(Tail(stack), reader.asked)
Still == (srv.up => s.up) /\ (Quiet \/ (Leftover /\ (UnreadCaps \/ UnreadLong)))
Calm ==
  /\ srv'.up => s'.up
  /\ Leftover'
  /\ Unread' => ~s'.cmdOk /\ ~Has(stack, {"timedOut"})
WillFit(c, lo) == Fits(c, lo, reader.asked, reader.phase, s'.last, Orderly)

LEMMA StackUnder ==
  ASSUME FInv, stack # <<>>, LastFits
  PROVE  Under(stack, reader.asked, reader.phase, s'.last, Orderly)
<1>1. Whole(stack, reader.asked, reader.phase, s.last, Orderly)
  BY DEF FInv, StackOK, Stacked
<1>2. CASE s'.last = s.last
  BY <1>1, <1>2, SameLast
<1>3. CASE s'.last # s.last
  <2>1. Heavy(s'.last) => Bulk(stack, 1, reader.asked)
    BY <1>3, TopFits, Beneath DEF LastFits, Bulk, Bulky
  <2> QED
    BY <1>1, <2>1, NewLast
<1> QED
  BY <1>2, <1>3

\* A step that leaves on top a frame to go on from.
LEMMA Stays ==
  ASSUME FInv, stack # <<>>, Settled,
         Whole(stack', reader.asked, reader.phase, s'.last, Orderly),
         Has(stack', Excursion) <=> Has(stack, Excursion),
         Has(stack', {"timedOut"}) => Has(stack, {"timedOut"}),
         Calm \/ Still', ~InFlight',
         stack' # <<>> => Top'.at \notin {"check", "checked", "timedOut", "write"},
         stack' # <<>> /\ Top'.at = "timeout" =>
           ~(Len(stack') >= 3 /\ stack'[3].at = "greeted")
  PROVE  FInv'
<1>1. StackOK'
  BY Weaker DEF StackOK, Stacked, Orderly, Settled
<1>2. Flow'
  BY DEF Calm, Still, Flow, Quiet
<1>3. WriteOK' /\ GreetOK' /\ WaitOK'
  <2>1. stack' = <<>> \/ Top'.at \notin {"check", "checked", "timedOut", "write"}
    OBVIOUS
  <2>2. stack' = <<>> => ~(Len(stack') >= 2)
    OBVIOUS
  <2> QED
    BY <2>1, <2>2 DEF WriteOK, GreetOK, WaitOK, At
<1>4. AnswerOK'
  BY DEF AnswerOK
<1>5. HandlingOK' /\ PhaseOK'
  BY DEF FInv, HandlingOK, PhaseOK, Settled
<1> QED
  BY <1>1, <1>2, <1>3, <1>4, <1>5 DEF FInv, Settled
LEMMA CallersAre ==
  ASSUME NEW label
  PROVE  /\ Callers(label) \cap {"check", "checked", "write", "timeout"} = {}
         /\ label \notin TimeoutFam => "timedOut" \notin Callers(label)
         /\ label \notin TimeoutFam \cup CommandFam \cup AuthFam
              => Callers(label) \cap (Senders \cup {"authorised"}) = {}
  BY DEF Callers, Senders, CommandFam, TimeoutFam, AuthFam, AuthRest, CheckFam,
         AskFam, RefreshFam, TlsFam, ConnectFam, Excursion

LEMMA TopIs ==
  ASSUME NEW hi, NEW c, NEW lo, Pushes(hi, c, lo)
  PROVE  /\ hi # <<>> /\ Head(hi) = c
         /\ Len(hi) >= 2 => lo # <<>> /\ hi[2] = lo[1]
         /\ Len(hi) >= 3 => lo # <<>> /\ hi[3] = lo[2] /\ Len(lo) >= 2
<1>1. PICK S : hi \in Seq(S)
  BY DEF Pushes, IsSeq
<1>2. hi # <<>> /\ Head(hi) = c
  BY <1>1 DEF Pushes
<1>3. Len(hi) >= 2 => lo # <<>> /\ hi[2] = lo[1]
  <2> SUFFICES ASSUME Len(hi) >= 2
               PROVE  lo # <<>> /\ hi[2] = lo[1]
    OBVIOUS
  <2>1. 1 \in 1..Len(lo)
    BY DEF Pushes
  <2>2. hi[1+1] = lo[1]
    BY <2>1 DEF Pushes
  <2> QED
    BY <2>1, <2>2
<1>4. Len(hi) >= 3 => lo # <<>> /\ hi[3] = lo[2] /\ Len(lo) >= 2
  <2> SUFFICES ASSUME Len(hi) >= 3
               PROVE  lo # <<>> /\ hi[3] = lo[2] /\ Len(lo) >= 2
    OBVIOUS
  <2>1. 2 \in 1..Len(lo)
    BY DEF Pushes
  <2>2. hi[2+1] = lo[2]
    BY <2>1 DEF Pushes
  <2> QED
    BY <2>1, <2>2 DEF Pushes
<1> QED
  BY <1>2, <1>3, <1>4

\* A call returns.
LEMMA Returned ==
  ASSUME FInv, stack # <<>>, Settled, LastFits, stack' = Tail(stack),
         Top.at \notin TimeoutFam, Top.at \in CommandFam \cup AuthFam => ret' # 1,
         Calm \/ Still'
  PROVE  FInv'
<1>1. Whole(stack', reader.asked, reader.phase, s'.last, Orderly)
  BY StackUnder, Popped
<1>2. /\ Has(stack', Excursion) <=> Has(stack, Excursion)
      /\ Has(stack', {"timedOut"}) => Has(stack, {"timedOut"})
  BY TopFits DEF TimeoutFam
<1>3. stack' # <<>> => Top' = stack'[1] /\ Top'.at \in Callers(Top.at)
  BY TopFits, TailIs DEF Top
<1>4. stack' # <<>> => Top'.at \notin {"check", "checked", "timedOut", "write", "timeout"}
  BY <1>3, CallersAre
<1>5. ~InFlight'
  BY <1>3, <1>4, CallersAre DEF InFlight
<1> QED
  BY <1>1, <1>2, <1>4, <1>5, Stays

\* The call goes on from another place, or in another function.
LEMMA Moved ==
  ASSUME FInv, stack # <<>>, Settled, LastFits,
         NEW f, stack' = <<f>> \o Tail(stack), WillFit(f, Tail(stack)),
         f.at \in Excursion <=> Top.at \in Excursion,
         f.at \notin {"check", "checked", "timedOut", "write"},
         f.at \in Senders \cup {"authorised"} => ret' # 1,
         f.at = "timeout" => NoGreeted(Tail(stack)), Calm
  PROVE  FInv'
<1>1. Whole(stack', reader.asked, reader.phase, s'.last, Orderly)
  BY StackUnder, Jumped DEF WillFit
<1>2. Pushes(stack', f, Tail(stack))
  BY TopFits, PushIs
<1>3. /\ Has(stack', Excursion) <=> Has(stack, Excursion)
      /\ Has(stack', {"timedOut"}) => Has(stack, {"timedOut"})
  <2>1. \A labels : Has(stack', labels) <=> f.at \in labels \/ Has(Tail(stack), labels)
    BY <1>2, HasIs
  <2>2. \A labels : Has(stack, labels) <=> Top.at \in labels \/ Has(Tail(stack), labels)
    BY TopFits
  <2> QED
    BY <2>1, <2>2
<1>4. Top' = f
  BY <1>2, TopIs DEF Top
<1>5. ~InFlight'
  BY <1>4 DEF InFlight
<1>6. f.at = "timeout" => ~(Len(stack') >= 3 /\ stack'[3].at = "greeted")
  <2> SUFFICES ASSUME f.at = "timeout", Len(stack') >= 3, stack'[3].at = "greeted"
               PROVE  FALSE
    OBVIOUS
  <2>1. stack'[3] = Tail(stack)[2] /\ 2 \in 1..Len(Tail(stack))
    BY <1>2, TopIs DEF Pushes
  <2> QED
    BY <2>1 DEF NoGreeted, Has
<1> QED
  BY <1>1, <1>3, <1>4, <1>5, <1>6, Stays

\* A call of a function that neither writes nor reads at once.
LEMMA Calls ==
  ASSUME FInv, stack # <<>>, Settled, LastFits,
         NEW t, NEW c, stack' = <<c, t>> \o Tail(stack),
         WillFit(t, Tail(stack)), WillFit(c, <<t>> \o Tail(stack)),
         t.at \in Excursion <=> Top.at \in Excursion, c.at \notin Excursion,
         t.at # "timedOut",
         c.at \notin {"check", "checked", "timedOut", "write", "timeout"},
         c.at \notin Senders \cup {"authorised"}, Calm
  PROVE  FInv'
<1>1. Whole(stack', reader.asked, reader.phase, s'.last, Orderly)
  BY StackUnder, Called DEF WillFit
<1>2. Pushes(stack', c, <<t>> \o Tail(stack)) /\ Pushes(<<t>> \o Tail(stack), t, Tail(stack))
  BY TopFits, PushIs, TwoIs
<1>3. /\ Has(stack', Excursion) <=> Has(stack, Excursion)
      /\ Has(stack', {"timedOut"}) => Has(stack, {"timedOut"})
  <2>1. \A labels : Has(stack', labels) <=>
                      c.at \in labels \/ t.at \in labels \/ Has(Tail(stack), labels)
    BY <1>2, HasIs
  <2>2. \A labels : Has(stack, labels) <=> Top.at \in labels \/ Has(Tail(stack), labels)
    BY TopFits
  <2> QED
    BY <2>1, <2>2
<1>4. Top' = c
  BY <1>2, TopIs DEF Top
<1>5. ~InFlight'
  BY <1>4 DEF InFlight
<1> QED
  BY <1>1, <1>3, <1>4, <1>5, Stays

\* Nothing is left unread unless the reply was read just now.
LEMMA QuietHere ==
  ASSUME FInv, stack # <<>>, ~InFlight,
         Top.at \notin {"checked", "capsAnswered", "answered"}
  PROVE  Quiet /\ (srv.up => s.up)
  BY DEF FInv, Flow, UnreadCaps, UnreadLong, At

LEMMA QuietIsCalm ==
  ASSUME Quiet, srv'.out = srv.out, srv'.up = srv.up, s'.cmdOk = s.cmdOk,
         srv'.up => s'.up
  PROVE  Calm
  BY DEF Calm, Quiet, Leftover, Unread

LEMMA ClosedIsCalm ==
  ASSUME srv' = NoServer
  PROVE  Calm
  BY DEF Calm, NoServer, Leftover, Unread
-------------------------------------------------------------------------------
\* A frame fits as one of its family did, and a callee fits its caller.
Repairs == {"upgraded", "resent", "authorised"}
Kin(a, b) ==
  \E family \in {CommandFam, Excursion, Repairs, AskFam, RefreshFam, TlsFam,
                  AuthRest, ConnectFam, QuitFam} : {a, b} \subseteq family

LEMMA FamilyFits ==
  ASSUME NEW c, NEW f, NEW lo, NEW asked, NEW phase, NEW last, NEW new, NEW ok,
         Fits(c, lo, asked, phase, last, ok), IsFrame(f),
         f.at \in Holding => f.cmd = c.cmd, Kin(c.at, f.at), f.at = "authResent" => f.cmd.verb # "MODE_READER"
  PROVE  Fits(f, lo, asked, phase, new, ok)
<1> USE DEF Outer, Callers, Holding, Watching, Reading, Resenders, Excursion,
            CommandFam, TimeoutFam, CheckFam, AskFam, RefreshFam, TlsFam, AuthFam,
            AuthRest, ConnectFam, QuitFam, Repairs
<1>1. CASE {c.at, f.at} \subseteq CommandFam
  BY <1>1 DEF Fits
<1>2. CASE {c.at, f.at} \subseteq Excursion
  BY <1>2 DEF Fits
<1>3. CASE {c.at, f.at} \subseteq Repairs
  BY <1>3 DEF Fits
<1>4. CASE {c.at, f.at} \subseteq AskFam
  BY <1>4 DEF Fits
<1>5. CASE {c.at, f.at} \subseteq RefreshFam
  BY <1>5 DEF Fits
<1>6. CASE {c.at, f.at} \subseteq TlsFam
  BY <1>6 DEF Fits
<1>7. CASE {c.at, f.at} \subseteq AuthRest
  BY <1>7 DEF Fits
<1>8. CASE {c.at, f.at} \subseteq ConnectFam
  BY <1>8 DEF Fits
<1>9. CASE {c.at, f.at} \subseteq QuitFam
  BY <1>9 DEF Fits
<1> QED
  BY <1>1, <1>2, <1>3, <1>4, <1>5, <1>6, <1>7, <1>8, <1>9 DEF Kin

LEMMA OnTop ==
  ASSUME NEW t, NEW lo, IsSeq(lo)
  PROVE  /\ <<t>> \o lo # <<>> /\ (<<t>> \o lo)[1] = t
         /\ \A labels : Has(<<t>> \o lo, labels) <=> t.at \in labels \/ Has(lo, labels)
         /\ AllCarry(<<t>> \o lo) <=> Carries(t) /\ AllCarry(lo)
         /\ lo # <<>> => 1 < Len(<<t>> \o lo) /\ (<<t>> \o lo)[1+1] = lo[1]
<1>1. Pushes(<<t>> \o lo, t, lo)
  BY PushIs
<1>2. /\ \A labels : Has(<<t>> \o lo, labels) <=> t.at \in labels \/ Has(lo, labels)
      /\ AllCarry(<<t>> \o lo) <=> Carries(t) /\ AllCarry(lo)
  BY <1>1, HasIs, Beneath
<1>3. ASSUME lo # <<>>
      PROVE  1 < Len(<<t>> \o lo) /\ (<<t>> \o lo)[1+1] = lo[1]
  <2>1. 1 \in 1..Len(lo)
    <3>1. PICK S : lo \in Seq(S)
      BY DEF IsSeq
    <3> QED
      BY <3>1, <1>3
  <2> QED
    BY <1>1, <2>1 DEF Pushes
<1> QED
  BY <1>1, <1>2, <1>3 DEF Pushes

LEMMA CalleeFits ==
  ASSUME NEW t, NEW lo, IsSeq(lo), NEW asked, NEW phase, NEW last, NEW ok,
         NoGreeted(lo), t.at # "greeted",
         NEW label \in {"refresh", "require", "startTls", "connect", "ask"}, NEW cmd,
         t.at \in Callers(label), label = "ask" => ~Heavy(cmd) /\ ~Caps(cmd)
  PROVE  Fits(Plain(label, cmd), <<t>> \o lo, asked, phase, last, ok)
<1>1. /\ <<t>> \o lo # <<>> /\ (<<t>> \o lo)[1] = t
      /\ NoGreeted(<<t>> \o lo)
  BY OnTop DEF NoGreeted
<1>2. /\ Plain(label, cmd).at = label /\ Plain(label, cmd).cmd = cmd
      /\ IsFrame(Plain(label, cmd))
  BY DEF Plain, Frame, IsFrame
<1> QED
  BY <1>1, <1>2 DEF Fits, Holding, Watching, Reading, Resenders, Excursion,
     CommandFam, AskFam, AuthRest

LEMMA CommandFits ==
  ASSUME NEW t, NEW lo, IsSeq(lo), NEW asked, NEW phase, NEW last, NEW ok,
         NoGreeted(lo), t.at \in Senders, NEW cmd,
         Heavy(cmd) => Carries(t) /\ Bulky(lo, asked),
         Caps(cmd) =>
           \/ t.at = "capsAsked"
           \/ t.at \in {"resent", "repeated", "authResent"} /\ Caps(t.cmd)
  PROVE  Fits(Plain("command", cmd), <<t>> \o lo, asked, phase, last, ok)
<1>1. /\ <<t>> \o lo # <<>> /\ (<<t>> \o lo)[1] = t
      /\ NoGreeted(<<t>> \o lo)
      /\ Heavy(cmd) => Bulky(<<t>> \o lo, asked)
      /\ Caps(cmd) => CapsAt(<<t>> \o lo, 1)
  BY OnTop DEF NoGreeted, Senders, Bulky, CapsAt
<1>2. /\ Plain("command", cmd).at = "command" /\ Plain("command", cmd).cmd = cmd
      /\ IsFrame(Plain("command", cmd))
  BY DEF Plain, Frame, IsFrame
<1>3. \A l : l = "command" => t.at \in Callers(l)
  BY DEF Callers, CommandFam
<1> QED
  BY <1>1, <1>2, <1>3 DEF Fits, Holding, Watching, Reading, Resenders, Excursion,
     CommandFam, AskFam, AuthRest

\* A step that changes little but the calls, and one that closes the connection.
Kept ==
  /\ DOMAIN s' = DOMAIN s /\ s'.last = s.last
  /\ s'.handling = s.handling /\ s'.allowTimeout = s.allowTimeout

LEMMA Idle ==
  ASSUME FInv, stack # <<>>, ~InFlight,
         Top.at \notin {"checked", "capsAnswered", "answered"},
         Kept, s'.cmdOk = s.cmdOk, s'.up = s.up, Inside, ret' \in -2..1
  PROVE  Settled /\ LastFits /\ Calm
<1>1. Shapes'
  BY DEF FInv, Shapes, Inside, World, Kept
<1> QED
  BY <1>1, QuietHere, QuietIsCalm DEF Settled, LastFits, Inside, World, Kept

LEMMA Closing ==
  ASSUME FInv, Kept, srv' = NoServer, UNCHANGED World, ret' \in -2..1
  PROVE  Settled /\ LastFits /\ Calm
<1>1. Shapes'
  BY DEF FInv, Shapes, World, Kept, NoServer
<1> QED
  BY <1>1, ClosedIsCalm DEF Settled, LastFits, World, Kept

LEMMA ToIs ==
  ASSUME IsFrame(Top), NEW label
  PROVE  /\ IsFrame(To(label)) /\ To(label).at = label /\ To(label).cmd = Top.cmd
         /\ To(label).note = Top.note
  BY DEF IsFrame, To

LEMMA NoteIs ==
  ASSUME IsFrame(Top), NEW label, NEW note
  PROVE  LET f == [To(label) EXCEPT !.note = note]
         IN IsFrame(f) /\ f.at = label /\ f.cmd = Top.cmd
  BY DEF IsFrame, To

LEMMA ClosedIs ==
  ASSUME NEW t, DOMAIN t = DOMAIN s, FInv
  PROVE  /\ DOMAIN Closed(t) = DOMAIN s /\ Closed(t).last = t.last
         /\ Closed(t).handling = t.handling /\ Closed(t).allowTimeout = t.allowTimeout
         /\ Closed(t).up = FALSE
  BY DEF Closed, FInv, Shapes

\* The moves within a function: on, with a call, and with a command.
LEMMA MovesOn ==
  ASSUME FInv, stack # <<>>, Settled, LastFits, Calm,
         NEW f, IsFrame(f), f.at \in Holding => f.cmd = Top.cmd, Kin(Top.at, f.at),
         Jump(f),
         f.at # "write", f.at = "authResent" => f.cmd.verb # "MODE_READER",
         f.at \in Senders \cup {"authorised"} => ret' # 1
  PROVE  FInv'
<1>1. WillFit(f, Tail(stack))
  BY TopFits, FamilyFits DEF WillFit, Suits
<1>2. f.at \in Excursion <=> Top.at \in Excursion
  BY DEF Kin, Outer, Excursion, CommandFam, AskFam, RefreshFam, TlsFam, AuthRest,
         ConnectFam, QuitFam, Repairs
<1>3. f.at \notin {"check", "checked", "timedOut", "timeout"}
  BY DEF Kin, Outer, Excursion, CommandFam, AskFam, RefreshFam, TlsFam, AuthRest,
         ConnectFam, QuitFam, Repairs
<1> QED
  BY <1>1, <1>2, <1>3, Moved DEF Jump

LEMMA CallsOn ==
  ASSUME FInv, stack # <<>>, Settled, LastFits, Calm,
         NEW t, IsFrame(t), t.cmd = Top.cmd, Kin(Top.at, t.at),
         t.at \notin {"greeted", "authResent"},
         NEW label \in {"refresh", "require", "startTls", "ask"}, NEW cmd,
         t.at \in Callers(label), label = "ask" => ~Heavy(cmd) /\ ~Caps(cmd),
         Call(t, Plain(label, cmd))
  PROVE  FInv'
<1>1. WillFit(t, Tail(stack))
  BY TopFits, FamilyFits DEF WillFit, Suits
<1>2. /\ t.at \in Excursion <=> Top.at \in Excursion
      /\ t.at # "timedOut" /\ Top.at \notin Reading /\ t.at \notin Reading
  BY DEF Kin, Outer, Excursion, CommandFam, AskFam, RefreshFam, TlsFam, AuthRest,
         ConnectFam, QuitFam, Repairs, Reading
<1>3. NoGreeted(Tail(stack))
  BY <1>2, TopFits DEF Suits, Fits
<1>4. WillFit(Plain(label, cmd), <<t>> \o Tail(stack))
  BY <1>3, TopFits, CalleeFits DEF WillFit
<1>5. Plain(label, cmd).at = label
  BY DEF Plain, Frame
<1> QED
  BY <1>1, <1>2, <1>4, <1>5, Calls DEF Call, Senders, Excursion

LEMMA Sends ==
  ASSUME FInv, stack # <<>>, Settled, s'.last = s.last, Calm,
         NEW t, IsFrame(t), t.cmd = Top.cmd, Kin(Top.at, t.at), t.at \in Senders,
         t.at = "authResent" => t.cmd.verb # "MODE_READER", NEW cmd,
         Heavy(cmd) => t.at \in Carriers \cap Holding /\ t.cmd = cmd,
         Caps(cmd) =>
           \/ t.at = "capsAsked"
           \/ t.at \in {"resent", "repeated", "authResent"} /\ Caps(t.cmd),
         Call(t, Plain("command", cmd))
  PROVE  FInv'
<1>1. WillFit(t, Tail(stack))
  BY TopFits, FamilyFits DEF WillFit, Suits
<1>2. /\ t.at \in Excursion <=> Top.at \in Excursion
      /\ t.at # "timedOut" /\ Top.at \notin Reading /\ t.at \notin Reading
  BY DEF Kin, Outer, Excursion, CommandFam, AskFam, RefreshFam, TlsFam, AuthRest,
         ConnectFam, QuitFam, Repairs, Reading
<1>3. NoGreeted(Tail(stack))
  BY <1>2, TopFits DEF Suits, Fits
<1>4. Heavy(cmd) => Carries(t) /\ Bulky(Tail(stack), reader.asked)
  BY <1>1 DEF WillFit, Fits, Carries
<1>5. WillFit(Plain("command", cmd), <<t>> \o Tail(stack))
  BY <1>3, <1>4, TopFits, CommandFits DEF WillFit
<1>6. Plain("command", cmd).at = "command" /\ LastFits
  BY DEF Plain, Frame, LastFits
<1> DEFINE c == Plain("command", cmd)
<1>7. /\ c.at \notin Excursion
      /\ c.at \notin {"check", "checked", "timedOut", "write", "timeout"}
      /\ c.at \notin Senders \cup {"authorised"}
  BY <1>6 DEF Senders, Excursion
<1>8. stack' = <<c, t>> \o Tail(stack)
  BY DEF Call
<1>9. WillFit(c, <<t>> \o Tail(stack))
  BY <1>5
<1> HIDE DEF c
<1> QED
  BY <1>1, <1>2, <1>6, <1>7, <1>8, <1>9, Calls

\* A reply under way stays one while neither the server nor the command changes.
LEMMA StillComing ==
  ASSUME Coming, srv'.out = srv.out, srv'.up => srv.up, s'.last = s.last
  PROVE  Coming'
<1>1. CASE ~srv.up /\ Leftover
  BY <1>1 DEF Coming, Leftover
<1>2. ASSUME NEW r, srv.out = IF Manifold(r.code) THEN <<r, Data>> ELSE <<r>>,
             r.code \in {215, 220} => Heavy(s.last), r.code = 101 => Caps(s.last)
      PROVE  Coming'
  <2>1. /\ srv'.out = IF Manifold(r.code) THEN <<r, Data>> ELSE <<r>>
        /\ r.code \in {215, 220} => Heavy(s'.last)
        /\ r.code = 101 => Caps(s'.last)
    BY <1>2
  <2> QED
    BY <2>1 DEF Coming
<1> QED
  BY <1>1, <1>2 DEF Coming

\* Steps that leave a reply under way are to keep the rest of the invariant.
LEMMA Reads ==
  ASSUME FInv, stack # <<>>, Coming, UNCHANGED <<s, srv, reader, ret>>,
         Whole(stack', reader.asked, reader.phase, s.last, Orderly),
         Has(stack', Excursion) <=> Has(stack, Excursion),
         stack' # <<>>, Top'.at = "check",
         Len(stack') >= 2 => stack'[2].at # "greeted"
  PROVE  FInv'
<1>1. InFlight'
  BY DEF InFlight
<1>2. Shapes' /\ HandlingOK' /\ PhaseOK'
  BY DEF FInv, Shapes, HandlingOK, PhaseOK
<1>3. StackOK'
  BY Weaker DEF StackOK, Stacked, Orderly
<1>4. Flow'
  <2>1. Coming' /\ (srv'.up => s'.up)
    BY StillComing DEF FInv, Flow
  <2> QED
    BY <1>1, <2>1 DEF Flow
<1>5. WriteOK' /\ GreetOK' /\ WaitOK' /\ AnswerOK'
  BY DEF WriteOK, GreetOK, WaitOK, AnswerOK, At
<1> QED
  BY <1>1, <1>2, <1>3, <1>4, <1>5 DEF FInv

\* The reply to a command is read, and read again after a repair.
LEMMA ReadsFirst ==
  ASSUME FInv, InFlight, Top.at \in {"asked", "capsAsked", "readerAsked"},
         UNCHANGED <<s, srv, reader>>,
         NEW t, IsFrame(t), t.cmd = Top.cmd, Kin(Top.at, t.at),
         t.at \in {"answered", "capsAnswered", "readerAnswered"},
         Call(t, Check)
  PROVE  FInv'
<1>0. stack # <<>>
  BY DEF InFlight
<1>1. Suits(t, Tail(stack))
  BY <1>0, TopFits, FamilyFits DEF Suits
<1>2. NoGreeted(Tail(stack)) /\ IsSeq(Tail(stack))
  BY <1>0, TopFits DEF Suits, Fits, Reading
<1>3. /\ Heavy(s.last) => Bulky(<<t>> \o Tail(stack), reader.asked)
      /\ Caps(s.last) /\ Orderly => t.at = "capsAnswered"
  <2>1. /\ Heavy(s.last) => Long(reader.asked) /\ AllCarry(stack)
        /\ Caps(s.last) /\ Orderly => CapsAt(stack, 1)
    BY DEF FInv, AnswerOK
  <2>2. Heavy(s.last) => Carries(t) /\ AllCarry(Tail(stack))
    BY <1>0, <2>1, TopFits
       DEF Carries, Carriers, Holding, AskFam, CommandFam, Resenders, Excursion,
           AuthRest, Kin, RefreshFam, TlsFam, ConnectFam, QuitFam, Repairs
  <2>3. Caps(s.last) /\ Orderly => Top.at = "capsAsked"
    BY <1>0, <2>1, TopFits DEF CapsAt
  <2> QED
    BY <1>2, <2>1, <2>2, <2>3, OnTop
       DEF Bulky, Kin, RefreshFam, AskFam, CommandFam, Excursion, AuthRest, TlsFam,
           ConnectFam, QuitFam, Repairs
<1>4. Check.at = "check" /\ IsFrame(Check)
  BY DEF Check, Frame, IsFrame
<1>5. Suits(Check, <<t>> \o Tail(stack))
  <2>1. <<t>> \o Tail(stack) # <<>> /\ (<<t>> \o Tail(stack))[1] = t
    BY <1>2, OnTop
  <2>2. t.at \in Callers(Check.at)
    BY <1>4 DEF Callers, CommandFam, TimeoutFam, Excursion, AuthFam, AuthRest, CheckFam
  <2> QED
    BY <1>3, <1>4, <2>1, <2>2
       DEF Suits, Fits, Holding, CommandFam, AskFam, Resenders, Excursion, AuthRest,
           Watching, Reading
<1>6. Under(stack, reader.asked, reader.phase, s.last, Orderly)
  BY <1>0, StackUnder DEF LastFits
<1>7. Whole(stack', reader.asked, reader.phase, s.last, Orderly)
  BY <1>0, <1>1, <1>5, <1>6, Called DEF Suits, Call
<1>8. Pushes(stack', Check, <<t>> \o Tail(stack)) /\ Pushes(<<t>> \o Tail(stack), t, Tail(stack))
  BY <1>2, PushIs, TwoIs DEF Call
<1>9. Has(stack', Excursion) <=> Has(stack, Excursion)
  <2>1. Check.at \notin Excursion /\ t.at \notin Excursion /\ Top.at \notin Excursion
    BY <1>4 DEF Excursion
  <2> QED
    BY <1>0, <2>1, <1>8, HasIs, TopFits
<1>10. stack' # <<>> /\ Top' = Check /\ (Len(stack') >= 2 => stack'[2] = t)
  BY <1>2, <1>8, TopIs, OnTop DEF Top
<1> QED
  BY <1>0, <1>4, <1>7, <1>9, <1>10, Reads DEF FInv, Flow, Call

LEMMA JumpIs ==
  ASSUME IsSeq(Tail(stack)), NEW f, Jump(f)
  PROVE  /\ Pushes(stack', f, Tail(stack)) /\ stack' # <<>> /\ Top' = f
         /\ Len(stack') >= 2 => stack'[2] = Tail(stack)[1]
<1>1. Pushes(stack', f, Tail(stack))
  BY PushIs DEF Jump
<1> QED
  BY <1>1, TopIs DEF Top

LEMMA ReadsAgain ==
  ASSUME FInv, InFlight, Top.at \in {"timedOut", "resent", "authorised"},
         UNCHANGED <<s, srv, reader, ret>>,
         NEW f, IsFrame(f), f.at = "check", Jump(f)
  PROVE  FInv'
<1>0. stack # <<>> /\ Suits(Top, Tail(stack))
  BY TopFits DEF InFlight
<1>1. Tail(stack) # <<>> /\ Tail(stack)[1].at \in Callers("check")
  BY <1>0 DEF Suits, Fits, Outer, AskFam, ConnectFam, QuitFam, Callers, CommandFam,
              TimeoutFam, Excursion, AuthFam, AuthRest, CheckFam
<1>2. Tail(stack)[1].at \in {"answered", "capsAnswered", "greeted", "readerAnswered"}
  BY <1>1 DEF Callers, CommandFam, TimeoutFam, Excursion, AuthFam, AuthRest, CheckFam
<1>3. /\ Heavy(s.last) => Bulky(Tail(stack), reader.asked)
      /\ Caps(s.last) /\ Orderly => Tail(stack)[1].at = "capsAnswered"
  <2>1. /\ Heavy(s.last) => Long(reader.asked) /\ AllCarry(stack)
        /\ Caps(s.last) /\ Orderly => CapsAt(stack, 1)
    BY DEF FInv, AnswerOK
  <2>2. ASSUME Caps(s.last), Orderly
        PROVE  Tail(stack)[1].at = "capsAnswered"
    <3>1. CapsAt(stack, 1) /\ stack[1] = Top
      BY <1>0, <2>1, <2>2, TopFits
    <3>2. CASE Top.at = "timedOut"
      BY <1>0, <1>1, <3>1, <3>2, TopFits DEF CapsAt
    <3>3. CASE Top.at # "timedOut"
      <4>1. Caps(Top.cmd)
        BY <3>1, <3>3 DEF CapsAt
      <4>2. CapsAt(Tail(stack), 1)
        BY <1>0, <2>2, <3>3, <4>1 DEF Suits, Fits, Resenders
      <4> QED
        BY <1>2, <4>2 DEF CapsAt
    <3> QED
      BY <3>2, <3>3
  <2> QED
    BY <1>0, <2>1, <2>2, TopFits DEF Bulky
<1>4. Suits(f, Tail(stack))
  <2>1. f.at \notin Holding \cup Resenders \cup Excursion \cup AskFam \cup AuthRest
                    \cup CommandFam
    BY DEF Holding, CommandFam, AskFam, Resenders, Excursion, AuthRest
  <2>2. f.at \in Reading
    BY DEF Reading
  <2> QED
    BY <1>1, <1>3, <2>1, <2>2 DEF Suits, Fits
<1>6. Under(stack, reader.asked, reader.phase, s.last, Orderly)
  BY <1>0, StackUnder DEF LastFits
<1>7. Whole(stack', reader.asked, reader.phase, s.last, Orderly)
  BY <1>0, <1>4, <1>6, Jumped DEF Suits, Jump
<1>8. Pushes(stack', f, Tail(stack))
  BY <1>0, TopFits, PushIs DEF Jump
<1>9. Has(stack', Excursion) <=> Has(stack, Excursion)
  BY <1>0, <1>8, HasIs, TopFits DEF Excursion
<1>10. stack' # <<>> /\ Top' = f /\ (Len(stack') >= 2 => stack'[2] = Tail(stack)[1])
  <2>1. IsSeq(Tail(stack))
    BY <1>0, TopFits
  <2> QED
    BY <2>1, JumpIs
<1>11. Tail(stack)[1].at # "greeted"
  <2>1. CASE Top.at = "timedOut"
    <3>1. ret = 1 /\ Len(stack) >= 2 /\ stack[2] = Tail(stack)[1]
      BY <1>0, <1>1, <2>1, TopFits DEF InFlight, Senders
    <3> QED
      BY <2>1, <3>1 DEF FInv, GreetOK
  <2>2. CASE Top.at # "timedOut"
    <3>1. NoGreeted(Tail(stack)) /\ IsSeq(Tail(stack))
      BY <1>0, <2>2, TopFits DEF Suits, Fits, Reading
    <3>2. 1 \in 1..Len(Tail(stack))
      BY <1>0, <1>1, TopFits, TailIs DEF Pushes
    <3> QED
      BY <3>1, <3>2 DEF NoGreeted, Has
  <2> QED
    BY <2>1, <2>2
<1> QED
  BY <1>0, <1>7, <1>9, <1>10, <1>11, Reads DEF FInv, Flow

LEMMA KeepAsk == FInv /\ Ask => FInv'
<1> SUFFICES ASSUME FInv, Ask
             PROVE  FInv'
  OBVIOUS
<1>1. stack # <<>> /\ Top.at = "ask" /\ ret \in -2..1 /\ IsFrame(Top)
      /\ Suits(Top, Tail(stack))
  BY TopFits DEF Ask, At, FInv, Shapes, Suits, Fits
<1>2. Settled /\ LastFits /\ Calm
  BY <1>1, Idle DEF Ask, CallFrom, Call, Kept, InFlight, Senders
<1>3. ~Caps(Top.cmd)
  BY <1>1 DEF Suits, Fits, AskFam
<1> QED
  BY <1>1, <1>2, <1>3, ToIs, Sends
     DEF Ask, CallFrom, Kin, AskFam, Senders, Carriers, Holding

LEMMA KeepAsked == FInv /\ Asked => FInv'
<1> SUFFICES ASSUME FInv, Asked
             PROVE  FInv'
  OBVIOUS
<1>1. stack # <<>> /\ Top.at = "asked" /\ ret \in -2..1 /\ IsFrame(Top)
      /\ Suits(Top, Tail(stack))
  BY TopFits DEF Asked, At, FInv, Shapes, Suits, Fits
<1>2. CASE ret <= 0
  <2>1. Settled /\ LastFits /\ Calm
    BY <1>1, <1>2, Idle DEF Asked, Return, Kept, InFlight, Senders
  <2> QED
    BY <1>1, <1>2, <2>1, Returned
       DEF Asked, Return, TimeoutFam, Excursion, CommandFam, AuthFam, AuthRest
<1>3. CASE ~(ret <= 0)
  <2>1. ret = 1 /\ InFlight
    BY <1>1, <1>3 DEF InFlight, Senders
  <2> QED
    BY <1>1, <1>3, <2>1, ToIs, ReadsFirst
       DEF Asked, CallFrom, Inside, World, Kin, AskFam
<1> QED
  BY <1>2, <1>3

LEMMA KeepRefresh == FInv /\ Refresh => FInv'
<1> SUFFICES ASSUME FInv, Refresh
             PROVE  FInv'
  OBVIOUS
<1>1. stack # <<>> /\ Top.at = "refresh" /\ ret \in -2..1 /\ IsFrame(Top)
      /\ Suits(Top, Tail(stack))
  BY TopFits DEF Refresh, At, FInv, Shapes, Suits, Fits
<1>2. Settled /\ LastFits /\ Calm /\ s'.last = s.last
  BY <1>1, Idle DEF Refresh, CallFrom, Call, Kept, InFlight, Senders, FInv, Shapes
<1>3. ~Heavy(Cmd("CAPABILITIES", 0))
  BY DEF Heavy, Cmd
<1>4. Call(To("capsAsked"), Plain("command", Cmd("CAPABILITIES", 0)))
  BY DEF Refresh, CallFrom
<1> QED
  BY <1>1, <1>2, <1>3, <1>4, ToIs, Sends DEF Kin, RefreshFam, Senders

LEMMA KeepRefreshAsked == FInv /\ RefreshAsked => FInv'
<1> SUFFICES ASSUME FInv, RefreshAsked
             PROVE  FInv'
  OBVIOUS
<1>1. stack # <<>> /\ Top.at = "capsAsked" /\ ret \in -2..1 /\ IsFrame(Top)
      /\ Suits(Top, Tail(stack))
  BY TopFits DEF RefreshAsked, At, FInv, Shapes, Suits, Fits
<1>2. CASE ret <= 0
  <2>1. Settled /\ LastFits /\ Calm
    BY <1>1, <1>2, Idle DEF RefreshAsked, Return, Kept, InFlight, Senders
  <2> QED
    BY <1>1, <1>2, <2>1, Returned
       DEF RefreshAsked, Return, TimeoutFam, Excursion, CommandFam, AuthFam, AuthRest
<1>3. CASE ~(ret <= 0)
  <2>1. ret = 1 /\ InFlight
    BY <1>1, <1>3 DEF InFlight, Senders
  <2> QED
    BY <1>1, <1>3, <2>1, ToIs, ReadsFirst
       DEF RefreshAsked, CallFrom, Inside, World, Kin, RefreshFam
<1> QED
  BY <1>2, <1>3

LEMMA KeepRequireTls == FInv /\ RequireTls => FInv'
<1> SUFFICES ASSUME FInv, RequireTls
             PROVE  FInv'
  OBVIOUS
<1>1. stack # <<>> /\ Top.at = "require" /\ ret \in -2..1 /\ IsFrame(Top)
      /\ Suits(Top, Tail(stack))
  BY TopFits DEF RequireTls, At, FInv, Shapes, Suits, Fits
<1>2. Settled /\ LastFits /\ Calm
  BY <1>1, Idle
     DEF RequireTls, Return, Become, Jump, Kept, InFlight, Senders, FInv, Shapes
<1>3. CASE stack' = Tail(stack)
  BY <1>1, <1>2, <1>3, Returned
     DEF TimeoutFam, Excursion, CommandFam, AuthFam, AuthRest
<1>4. CASE Jump(Plain("startTls", NoCmd))
  <2> DEFINE f == Plain("startTls", NoCmd)
  <2>1. f.at = "startTls" /\ IsFrame(f)
    BY DEF Plain, Frame, IsFrame
  <2>2. Jump(f)
    BY <1>4
  <2> HIDE DEF f
  <2>3. f.at \notin Holding /\ f.at \notin Senders \cup {"authorised"}
    BY <2>1 DEF Senders, Holding, CommandFam, AskFam, Resenders, Excursion, AuthRest
  <2>4. Kin(Top.at, f.at)
    BY <1>1, <2>1 DEF Kin, TlsFam
  <2> QED
    BY <1>1, <1>2, <2>1, <2>2, <2>3, <2>4, MovesOn
<1> QED
  BY <1>3, <1>4 DEF RequireTls, Return, Become

LEMMA KeepAuthUpgraded == FInv /\ AuthUpgraded => FInv'
<1> SUFFICES ASSUME FInv, AuthUpgraded
             PROVE  FInv'
  OBVIOUS
<1>1. stack # <<>> /\ Top.at = "authUpgraded" /\ ret \in -2..1 /\ IsFrame(Top)
      /\ Suits(Top, Tail(stack))
  BY TopFits DEF AuthUpgraded, At, FInv, Shapes, Suits, Fits
<1>2. Settled /\ LastFits /\ Calm
  BY <1>1, Idle DEF AuthUpgraded, Return, Goto, Jump, Kept, InFlight, Senders
<1>3. CASE ret < 0
  BY <1>1, <1>2, <1>3, Returned DEF AuthUpgraded, Return, TimeoutFam, Excursion
<1>4. CASE ~(ret < 0)
  BY <1>1, <1>2, <1>4, ToIs, MovesOn
     DEF AuthUpgraded, Goto, Kin, AuthRest, Senders
<1> QED
  BY <1>3, <1>4

LEMMA KeepStartTls == FInv /\ StartTls => FInv'
<1> SUFFICES ASSUME FInv, StartTls
             PROVE  FInv'
  OBVIOUS
<1>1. stack # <<>> /\ Top.at = "startTls" /\ ret \in -2..1 /\ IsFrame(Top)
      /\ Suits(Top, Tail(stack))
  BY TopFits DEF StartTls, At, FInv, Shapes, Suits, Fits
<1>2. Settled /\ LastFits /\ Calm
  <2>1. \/ s' = s \/ s' = [s EXCEPT !.ser = Own(483)]
        \/ s' = [s EXCEPT !.tlsTried = TRUE, !.force = FALSE]
    BY DEF StartTls
  <2>2. Kept /\ s'.cmdOk = s.cmdOk /\ s'.up = s.up
    <3>1. CASE s' = s
      BY <3>1 DEF Kept
    <3>2. CASE s' = [s EXCEPT !.ser = Own(483)]
      BY <3>2 DEF Kept, FInv, Shapes
    <3>3. CASE s' = [s EXCEPT !.tlsTried = TRUE, !.force = FALSE]
      BY <3>3 DEF Kept, FInv, Shapes
    <3> QED
      BY <2>1, <3>1, <3>2, <3>3
  <2>3. ret' \in -2..1 /\ Inside
    BY <1>1 DEF StartTls, Return, Call
  <2> QED
    BY <1>1, <2>2, <2>3, Idle DEF InFlight, Senders
<1>3. CASE stack' = Tail(stack)
  BY <1>1, <1>2, <1>3, Returned DEF TimeoutFam, Excursion, CommandFam, AuthFam, AuthRest
<1>4. ASSUME NEW note, Call([To("tlsAnswered") EXCEPT !.note = note],
                            Plain("ask", Cmd("STARTTLS", 0)))
      PROVE  FInv'
  <2> DEFINE t == [To("tlsAnswered") EXCEPT !.note = note]
  <2>1. IsFrame(t) /\ t.at = "tlsAnswered" /\ t.cmd = Top.cmd
    BY <1>1, NoteIs
  <2>2. Call(t, Plain("ask", Cmd("STARTTLS", 0)))
    BY <1>4
  <2> HIDE DEF t
  <2> QED
    BY <1>1, <1>2, <2>1, <2>2, CallsOn
       DEF Kin, Callers, CommandFam, TimeoutFam, Excursion, AuthFam, AuthRest, CheckFam,
           AskFam, RefreshFam, TlsFam, ConnectFam, Cmd, Heavy, Caps
<1> QED
  BY <1>3, <1>4 DEF StartTls, Return

LEMMA KeepStartTlsAnswered == FInv /\ StartTlsAnswered => FInv'
<1> SUFFICES ASSUME FInv, StartTlsAnswered
             PROVE  FInv'
  OBVIOUS
<1>1. stack # <<>> /\ Top.at = "tlsAnswered" /\ ret \in -2..1 /\ IsFrame(Top)
      /\ Suits(Top, Tail(stack))
  BY TopFits DEF StartTlsAnswered, At, FInv, Shapes, Suits, Fits
<1>2. ASSUME NEW ser, TlsFails(ser)
      PROVE  FInv'
  <2>1. Settled /\ LastFits /\ Calm
    <3>1. s' = Closed([s EXCEPT !.ser = ser]) /\ srv' = NoServer /\ UNCHANGED World
          /\ ret' = -1
      BY <1>2 DEF TlsFails, Close, Return
    <3>2. Kept
      BY <3>1, ClosedIs DEF Kept, FInv, Shapes
    <3> QED
      BY <3>1, <3>2, Closing
  <2> QED
    BY <1>1, <1>2, <2>1, Returned
       DEF TlsFails, Return, TimeoutFam, Excursion, CommandFam, AuthFam, AuthRest
<1>3. ASSUME ~\E ser : TlsFails(ser)
      PROVE  FInv'
  <2>1. Call(To("tlsRefreshed"), Plain("refresh", NoCmd))
    BY <1>3 DEF StartTlsAnswered, CallFrom
  <2>2. Settled /\ LastFits /\ Calm
    <3>1. Quiet /\ (srv.up => s.up)
      BY <1>1, QuietHere DEF InFlight, Senders
    <3>2. /\ s' = [s EXCEPT !.security = "startTls", !.group = NoGroup, !.art = 0]
          /\ srv' = [srv EXCEPT !.tls = TRUE, !.group = NoGroup, !.art = 0]
          /\ UNCHANGED World /\ UNCHANGED ret
      BY <1>3, <2>1 DEF StartTlsAnswered, Call
    <3>3. Kept /\ s'.cmdOk = s.cmdOk /\ s'.up = s.up
      BY <3>2 DEF FInv, Shapes, Kept
    <3>4. srv'.out = srv.out /\ srv'.up = srv.up /\ DOMAIN srv' = DOMAIN srv
      BY <3>2 DEF FInv, Shapes
    <3>5. Shapes'
      BY <3>2, <3>3, <3>4 DEF FInv, Shapes, Kept, World
    <3> QED
      BY <3>1, <3>2, <3>3, <3>4, <3>5, QuietIsCalm DEF Settled, LastFits, World, Kept
  <2> QED
    BY <1>1, <2>1, <2>2, ToIs, CallsOn
       DEF Kin, Callers, CommandFam, TimeoutFam, Excursion, AuthFam, AuthRest, CheckFam,
           AskFam, RefreshFam, TlsFam, ConnectFam, Holding, Resenders
<1> QED
  BY <1>2, <1>3

LEMMA KeepStartTlsRefreshed == FInv /\ StartTlsRefreshed => FInv'
<1> SUFFICES ASSUME FInv, StartTlsRefreshed
             PROVE  FInv'
  OBVIOUS
<1>1. stack # <<>> /\ Top.at = "tlsRefreshed" /\ ret \in -2..1 /\ IsFrame(Top)
      /\ Suits(Top, Tail(stack))
  BY TopFits DEF StartTlsRefreshed, At, FInv, Shapes, Suits, Fits
<1>2. CASE TlsFails(s.ser)
  <2>1. Settled /\ LastFits /\ Calm
    <3>1. s' = Closed([s EXCEPT !.ser = s.ser]) /\ srv' = NoServer /\ UNCHANGED World
          /\ ret' = -1
      BY <1>2 DEF TlsFails, Close, Return
    <3>2. Kept
      BY <3>1, ClosedIs DEF Kept, FInv, Shapes
    <3> QED
      BY <3>1, <3>2, Closing
  <2> QED
    BY <1>1, <1>2, <2>1, Returned
       DEF TlsFails, Return, TimeoutFam, Excursion, CommandFam, AuthFam, AuthRest
<1>3. CASE ~TlsFails(s.ser)
  <2>1. Settled /\ LastFits /\ Calm
    <3>1. s' = s \/ s' = [s EXCEPT !.force = @ \/ Top.note.force]
      BY <1>3 DEF StartTlsRefreshed, StartTlsDone
    <3>2. Kept /\ s'.cmdOk = s.cmdOk /\ s'.up = s.up
      BY <3>1 DEF Kept, FInv, Shapes
    <3>3. ret' \in -2..1 /\ Inside
      BY <1>1, <1>3 DEF StartTlsRefreshed, StartTlsDone, Return, CallFrom, Call
    <3> QED
      BY <1>1, <3>2, <3>3, Idle DEF InFlight, Senders
  <2>2. CASE stack' = Tail(stack)
    BY <1>1, <2>1, <2>2, Returned DEF TimeoutFam, Excursion, CommandFam, AuthFam, AuthRest
  <2>3. CASE Call(To("tlsRegrouped"), Plain("ask", Cmd("GROUP", Top.note.group)))
    BY <1>1, <2>1, <2>3, ToIs, CallsOn
       DEF Kin, Callers, CommandFam, TimeoutFam, Excursion, AuthFam, AuthRest, CheckFam,
           AskFam, RefreshFam, TlsFam, ConnectFam, Holding, Resenders, Cmd, Heavy, Caps
  <2> QED
    BY <1>3, <2>2, <2>3 DEF StartTlsRefreshed, StartTlsDone, Return, CallFrom
<1> QED
  BY <1>2, <1>3

LEMMA KeepStartTlsRegrouped == FInv /\ StartTlsRegrouped => FInv'
<1> SUFFICES ASSUME FInv, StartTlsRegrouped
             PROVE  FInv'
  OBVIOUS
<1>1. stack # <<>> /\ Top.at = "tlsRegrouped" /\ ret \in -2..1 /\ IsFrame(Top)
      /\ Suits(Top, Tail(stack))
  BY TopFits DEF StartTlsRegrouped, At, FInv, Shapes, Suits, Fits
<1>2. CASE TlsFails(s.ser)
  <2>1. Settled /\ LastFits /\ Calm
    <3>1. s' = Closed([s EXCEPT !.ser = s.ser]) /\ srv' = NoServer /\ UNCHANGED World
          /\ ret' = -1
      BY <1>2 DEF TlsFails, Close, Return
    <3>2. Kept
      BY <3>1, ClosedIs DEF Kept, FInv, Shapes
    <3> QED
      BY <3>1, <3>2, Closing
  <2> QED
    BY <1>1, <1>2, <2>1, Returned
       DEF TlsFails, Return, TimeoutFam, Excursion, CommandFam, AuthFam, AuthRest
<1>3. CASE ~TlsFails(s.ser)
  <2>1. Settled /\ LastFits /\ Calm
    <3>1. s' = s \/ s' = [s EXCEPT !.force = @ \/ Top.note.force]
      BY <1>3 DEF StartTlsRegrouped, StartTlsDone
    <3>2. Kept /\ s'.cmdOk = s.cmdOk /\ s'.up = s.up
      BY <3>1 DEF Kept, FInv, Shapes
    <3>3. ret' \in -2..1 /\ Inside
      BY <1>1, <1>3 DEF StartTlsRegrouped, StartTlsDone, Return, CallFrom, Call
    <3> QED
      BY <1>1, <3>2, <3>3, Idle DEF InFlight, Senders
  <2>2. CASE stack' = Tail(stack)
    BY <1>1, <2>1, <2>2, Returned DEF TimeoutFam, Excursion, CommandFam, AuthFam, AuthRest
  <2>3. CASE Call(To("tlsRestored"), Plain("ask", Cmd("STAT", Top.note.art)))
    BY <1>1, <2>1, <2>3, ToIs, CallsOn
       DEF Kin, Callers, CommandFam, TimeoutFam, Excursion, AuthFam, AuthRest, CheckFam,
           AskFam, RefreshFam, TlsFam, ConnectFam, Holding, Resenders, Cmd, Heavy, Caps
  <2> QED
    BY <1>3, <2>2, <2>3 DEF StartTlsRegrouped, StartTlsDone, Return, CallFrom
<1> QED
  BY <1>2, <1>3

LEMMA KeepStartTlsRestored == FInv /\ StartTlsRestored => FInv'
<1> SUFFICES ASSUME FInv, StartTlsRestored
             PROVE  FInv'
  OBVIOUS
<1>1. stack # <<>> /\ Top.at = "tlsRestored" /\ ret \in -2..1 /\ IsFrame(Top)
      /\ Suits(Top, Tail(stack))
  BY TopFits DEF StartTlsRestored, At, FInv, Shapes, Suits, Fits
<1>2. CASE TlsFails(s.ser)
  <2>1. Settled /\ LastFits /\ Calm
    <3>1. s' = Closed([s EXCEPT !.ser = s.ser]) /\ srv' = NoServer /\ UNCHANGED World
          /\ ret' = -1
      BY <1>2 DEF TlsFails, Close, Return
    <3>2. Kept
      BY <3>1, ClosedIs DEF Kept, FInv, Shapes
    <3> QED
      BY <3>1, <3>2, Closing
  <2> QED
    BY <1>1, <1>2, <2>1, Returned
       DEF TlsFails, Return, TimeoutFam, Excursion, CommandFam, AuthFam, AuthRest
<1>3. CASE ~TlsFails(s.ser)
  <2>1. Settled /\ LastFits /\ Calm
    <3>1. s' = s \/ s' = [s EXCEPT !.force = @ \/ Top.note.force]
      BY <1>3 DEF StartTlsRestored, StartTlsDone
    <3>2. Kept /\ s'.cmdOk = s.cmdOk /\ s'.up = s.up
      BY <3>1 DEF Kept, FInv, Shapes
    <3>3. ret' \in -2..1 /\ Inside
      BY <1>1, <1>3 DEF StartTlsRestored, StartTlsDone, Return, CallFrom, Call
    <3> QED
      BY <1>1, <3>2, <3>3, Idle DEF InFlight, Senders
  <2>2. stack' = Tail(stack)
    BY <1>3 DEF StartTlsRestored, StartTlsDone, Return
  <2> QED
    BY <1>1, <2>1, <2>2, Returned DEF TimeoutFam, Excursion, CommandFam, AuthFam, AuthRest
<1> QED
  BY <1>2, <1>3
LEMMA KeepAuthLoop == FInv /\ AuthLoop => FInv'
<1> SUFFICES ASSUME FInv, AuthLoop
             PROVE  FInv'
  OBVIOUS
<1>1. stack # <<>> /\ Top.at = "authLoop" /\ ret \in -2..1 /\ IsFrame(Top)
      /\ Suits(Top, Tail(stack))
  BY TopFits DEF AuthLoop, At, FInv, Shapes, Suits, Fits
<1>2. Settled /\ LastFits /\ Calm /\ s'.last = s.last
  <2>1. \/ s' = s
    BY DEF AuthLoop, Jump
  <2>2. Kept /\ s'.cmdOk = s.cmdOk /\ s'.up = s.up
    BY <2>1 DEF Kept, FInv, Shapes
  <2>3. ret' \in -2..1 /\ Inside
    BY <1>1 DEF AuthLoop, Jump, Return, Pass, Goto, CallFrom, Call
  <2> QED
    BY <1>1, <2>2, <2>3, Idle DEF InFlight, Senders, Kept
<1>3. CASE Jump(To("authSafe"))
  BY <1>1, <1>2, <1>3, ToIs, MovesOn DEF Kin, AuthRest, Senders
<1>4. CASE Call(To("authSafe"), Plain("require", NoCmd))
  BY <1>1, <1>2, <1>4, ToIs, CallsOn
     DEF Kin, Callers, CommandFam, TimeoutFam, Excursion, AuthFam, AuthRest, CheckFam,
         AskFam,
           RefreshFam, TlsFam, ConnectFam, Cmd, Heavy, Caps
<1> QED
  BY <1>3, <1>4 DEF AuthLoop, Return, Pass, Goto, CallFrom

LEMMA KeepAuthSafe == FInv /\ AuthSafe => FInv'
<1> SUFFICES ASSUME FInv, AuthSafe
             PROVE  FInv'
  OBVIOUS
<1>1. stack # <<>> /\ Top.at = "authSafe" /\ ret \in -2..1 /\ IsFrame(Top)
      /\ Suits(Top, Tail(stack))
  BY TopFits DEF AuthSafe, At, FInv, Shapes, Suits, Fits
<1>2. Settled /\ LastFits /\ Calm /\ s'.last = s.last
  <2>1. \/ s' = s
        \/ s' = [s EXCEPT !.ser = Own(IF "SASL" \in s.caps THEN 503 ELSE 502)]
        \/ s' = [s EXCEPT !.auth = "trying"]
    BY DEF AuthSafe, Jump
  <2>2. Kept /\ s'.cmdOk = s.cmdOk /\ s'.up = s.up
    BY <2>1 DEF Kept, FInv, Shapes
  <2>3. ret' \in -2..1 /\ Inside
    BY <1>1 DEF AuthSafe, Jump, Return, Pass, Goto, CallFrom, Call
  <2> QED
    BY <1>1, <2>2, <2>3, Idle DEF InFlight, Senders, Kept
<1>3. CASE stack' = Tail(stack) /\ ret' # 1
  BY <1>1, <1>2, <1>3, Returned DEF TimeoutFam, Excursion, CommandFam, AuthFam, AuthRest
<1>4. ASSUME NEW note, Jump([To("authDone") EXCEPT !.note = note])
      PROVE  FInv'
  <2> DEFINE f == [To("authDone") EXCEPT !.note = note]
  <2>1. IsFrame(f) /\ f.at = "authDone" /\ f.cmd = Top.cmd
    BY <1>1, NoteIs
  <2>2. Jump(f)
    BY <1>4
  <2> HIDE DEF f
  <2> QED
    BY <1>1, <1>2, <2>1, <2>2, MovesOn DEF Kin, AuthRest, Senders
<1>5. CASE Jump(To("userAnswered"))
  BY <1>1, <1>2, <1>5, ToIs, MovesOn DEF Kin, AuthRest, Senders
<1>6. CASE Call(To("userAnswered"), Plain("ask", Cmd("AUTHINFO_USER", 0)))
  BY <1>1, <1>2, <1>6, ToIs, CallsOn
     DEF Kin, Callers, CommandFam, TimeoutFam, Excursion, AuthFam, AuthRest, CheckFam,
         AskFam,
           RefreshFam, TlsFam, ConnectFam, Cmd, Heavy, Caps
<1>7. \/ stack' = Tail(stack) /\ ret' # 1
      \/ Jump([To("authDone") EXCEPT !.note = Own(281)])
      \/ Jump(To("userAnswered"))
      \/ Call(To("userAnswered"), Plain("ask", Cmd("AUTHINFO_USER", 0)))
  BY DEF AuthSafe, Return, Pass, CallFrom
<1> QED
  BY <1>3, <1>4, <1>5, <1>6, <1>7

LEMMA KeepAuthUserAnswered == FInv /\ AuthUserAnswered => FInv'
<1> SUFFICES ASSUME FInv, AuthUserAnswered
             PROVE  FInv'
  OBVIOUS
<1>1. stack # <<>> /\ Top.at = "userAnswered" /\ ret \in -2..1 /\ IsFrame(Top)
      /\ Suits(Top, Tail(stack))
  BY TopFits DEF AuthUserAnswered, At, FInv, Shapes, Suits, Fits
<1>2. Settled /\ LastFits /\ Calm /\ s'.last = s.last
  <2>1. \/ s' = s
        \/ s' = [s EXCEPT !.auth = "no"]
        \/ s' = [s EXCEPT !.auth = "yes"]
    BY DEF AuthUserAnswered, AuthAccepted, AuthRefused, Jump
  <2>2. Kept /\ s'.cmdOk = s.cmdOk /\ s'.up = s.up
    BY <2>1 DEF Kept, FInv, Shapes
  <2>3. ret' \in -2..1 /\ Inside
    BY <1>1
       DEF AuthUserAnswered, AuthAccepted, AuthRefused, Jump, Return, Pass, Goto,
           CallFrom, Call
  <2> QED
    BY <1>1, <2>2, <2>3, Idle DEF InFlight, Senders, Kept
<1>3. CASE stack' = Tail(stack) /\ ret' # 1
  BY <1>1, <1>2, <1>3, Returned DEF TimeoutFam, Excursion, CommandFam, AuthFam, AuthRest
<1>4. CASE Call(To("authUpgraded"), Plain("startTls", NoCmd))
  BY <1>1, <1>2, <1>4, ToIs, CallsOn
     DEF Kin, Callers, CommandFam, TimeoutFam, Excursion, AuthFam, AuthRest, CheckFam,
         AskFam,
           RefreshFam, TlsFam, ConnectFam, Cmd, Heavy, Caps
<1>5. CASE Jump(To("authDone"))
  BY <1>1, <1>2, <1>5, ToIs, MovesOn DEF Kin, AuthRest, Senders
<1>6. ASSUME NEW note, Call([To("authRefreshed") EXCEPT !.note = note],
                            Plain("refresh", NoCmd))
      PROVE  FInv'
  <2> DEFINE t == [To("authRefreshed") EXCEPT !.note = note]
  <2>1. IsFrame(t) /\ t.at = "authRefreshed" /\ t.cmd = Top.cmd
    BY <1>1, NoteIs
  <2>2. Call(t, Plain("refresh", NoCmd))
    BY <1>6
  <2> HIDE DEF t
  <2> QED
    BY <1>1, <1>2, <2>1, <2>2, CallsOn
       DEF Kin, Callers, CommandFam, TimeoutFam, Excursion, AuthFam, AuthRest, CheckFam,
           AskFam,
           RefreshFam, TlsFam, ConnectFam
<1>7. CASE Call(To("passAnswered"), Plain("ask", Cmd("AUTHINFO_PASS", 0)))
  BY <1>1, <1>2, <1>7, ToIs, CallsOn
     DEF Kin, Callers, CommandFam, TimeoutFam, Excursion, AuthFam, AuthRest, CheckFam,
         AskFam,
           RefreshFam, TlsFam, ConnectFam, Cmd, Heavy, Caps
<1>8. \/ stack' = Tail(stack) /\ ret' # 1
      \/ Call(To("authUpgraded"), Plain("startTls", NoCmd))
      \/ Jump(To("authDone"))
      \/ Call([To("authRefreshed") EXCEPT !.note = s.ser], Plain("refresh", NoCmd))
      \/ Call(To("passAnswered"), Plain("ask", Cmd("AUTHINFO_PASS", 0)))
  BY DEF AuthUserAnswered, AuthAccepted, AuthRefused, Return, Goto, CallFrom
<1> QED
  BY <1>3, <1>4, <1>5, <1>6, <1>7, <1>8

LEMMA KeepAuthPassAnswered == FInv /\ AuthPassAnswered => FInv'
<1> SUFFICES ASSUME FInv, AuthPassAnswered
             PROVE  FInv'
  OBVIOUS
<1>1. stack # <<>> /\ Top.at = "passAnswered" /\ ret \in -2..1 /\ IsFrame(Top)
      /\ Suits(Top, Tail(stack))
  BY TopFits DEF AuthPassAnswered, At, FInv, Shapes, Suits, Fits
<1>2. Settled /\ LastFits /\ Calm /\ s'.last = s.last
  <2>1. \/ s' = s
        \/ s' = [s EXCEPT !.auth = "no"]
        \/ s' = [s EXCEPT !.auth = "yes"]
    BY DEF AuthPassAnswered, AuthAccepted, AuthRefused, Jump
  <2>2. Kept /\ s'.cmdOk = s.cmdOk /\ s'.up = s.up
    BY <2>1 DEF Kept, FInv, Shapes
  <2>3. ret' \in -2..1 /\ Inside
    BY <1>1
       DEF AuthPassAnswered, AuthAccepted, AuthRefused, Jump, Return, Pass, Goto,
           CallFrom, Call
  <2> QED
    BY <1>1, <2>2, <2>3, Idle DEF InFlight, Senders, Kept
<1>3. CASE stack' = Tail(stack) /\ ret' # 1
  BY <1>1, <1>2, <1>3, Returned DEF TimeoutFam, Excursion, CommandFam, AuthFam, AuthRest
<1>4. CASE Call(To("authUpgraded"), Plain("startTls", NoCmd))
  BY <1>1, <1>2, <1>4, ToIs, CallsOn
     DEF Kin, Callers, CommandFam, TimeoutFam, Excursion, AuthFam, AuthRest, CheckFam,
         AskFam,
           RefreshFam, TlsFam, ConnectFam, Cmd, Heavy, Caps
<1>5. CASE Jump(To("authDone"))
  BY <1>1, <1>2, <1>5, ToIs, MovesOn DEF Kin, AuthRest, Senders
<1>6. ASSUME NEW note, Call([To("authRefreshed") EXCEPT !.note = note],
                            Plain("refresh", NoCmd))
      PROVE  FInv'
  <2> DEFINE t == [To("authRefreshed") EXCEPT !.note = note]
  <2>1. IsFrame(t) /\ t.at = "authRefreshed" /\ t.cmd = Top.cmd
    BY <1>1, NoteIs
  <2>2. Call(t, Plain("refresh", NoCmd))
    BY <1>6
  <2> HIDE DEF t
  <2> QED
    BY <1>1, <1>2, <2>1, <2>2, CallsOn
       DEF Kin, Callers, CommandFam, TimeoutFam, Excursion, AuthFam, AuthRest, CheckFam,
           AskFam,
           RefreshFam, TlsFam, ConnectFam
<1>8. \/ stack' = Tail(stack) /\ ret' # 1
      \/ Call(To("authUpgraded"), Plain("startTls", NoCmd))
      \/ Jump(To("authDone"))
      \/ Call([To("authRefreshed") EXCEPT !.note = s.ser], Plain("refresh", NoCmd))
  BY DEF AuthPassAnswered, AuthAccepted, AuthRefused, Return, Goto, CallFrom
<1> QED
  BY <1>3, <1>4, <1>5, <1>6, <1>8

LEMMA KeepAuthRefreshed == FInv /\ AuthRefreshed => FInv'
<1> SUFFICES ASSUME FInv, AuthRefreshed
             PROVE  FInv'
  OBVIOUS
<1>1. stack # <<>> /\ Top.at = "authRefreshed" /\ ret \in -2..1 /\ IsFrame(Top)
      /\ Suits(Top, Tail(stack))
  BY TopFits DEF AuthRefreshed, At, FInv, Shapes, Suits, Fits
<1>2. Settled /\ LastFits /\ Calm /\ s'.last = s.last
  <2>1. \/ s' = s
    BY DEF AuthRefreshed, Jump
  <2>2. Kept /\ s'.cmdOk = s.cmdOk /\ s'.up = s.up
    BY <2>1 DEF Kept, FInv, Shapes
  <2>3. ret' \in -2..1 /\ Inside
    BY <1>1 DEF AuthRefreshed, Jump, Return, Pass, Goto, CallFrom, Call
  <2> QED
    BY <1>1, <2>2, <2>3, Idle DEF InFlight, Senders, Kept
<1>3. CASE stack' = Tail(stack) /\ ret' # 1
  BY <1>1, <1>2, <1>3, Returned DEF TimeoutFam, Excursion, CommandFam, AuthFam, AuthRest
<1>4. CASE Jump(To("authDone"))
  BY <1>1, <1>2, <1>4, ToIs, MovesOn DEF Kin, AuthRest, Senders
<1> QED
  BY <1>3, <1>4 DEF AuthRefreshed, Return, Pass, Goto, CallFrom

LEMMA KeepAuth == FInv /\ Auth => FInv'
<1> SUFFICES ASSUME FInv, Auth
             PROVE  FInv'
  OBVIOUS
<1>1. stack # <<>> /\ Top.at = "auth" /\ ret \in -2..1 /\ IsFrame(Top)
      /\ Suits(Top, Tail(stack))
  BY TopFits DEF Auth, At, FInv, Shapes, Suits, Fits
<1>2. Settled /\ LastFits /\ Calm /\ s'.last = s.last
  <2>1. \/ s' = [s EXCEPT !.force = FALSE]
    BY DEF Auth, Jump
  <2>2. Kept /\ s'.cmdOk = s.cmdOk /\ s'.up = s.up
    BY <2>1 DEF Kept, FInv, Shapes
  <2>3. ret' \in -2..1 /\ Inside
    BY <1>1 DEF Auth, Jump, Return, Pass, Goto, CallFrom, Call
  <2> QED
    BY <1>1, <2>2, <2>3, Idle DEF InFlight, Senders, Kept
<1>3. CASE stack' = Tail(stack) /\ ret' # 1
  BY <1>1, <1>2, <1>3, Returned DEF TimeoutFam, Excursion, CommandFam, AuthFam, AuthRest
<1>4. CASE Jump([To("authLoop") EXCEPT !.cmd = s.last])
  <2> DEFINE f == [To("authLoop") EXCEPT !.cmd = s.last]
  <2>1. IsFrame(f) /\ f.at = "authLoop" /\ f.cmd = s.last
    BY <1>1 DEF IsFrame, To
  <2>2. WillFit(f, Tail(stack))
    BY <1>1, <1>2, <2>1
       DEF WillFit, Suits, Fits, Callers, AuthFam, AuthRest, CommandFam, TimeoutFam,
           Excursion, Watching, Reading, Resenders, AskFam, Outer, ConnectFam, QuitFam,
           Holding
  <2>3. stack' = <<f>> \o Tail(stack)
    BY <1>4 DEF Jump
  <2> HIDE DEF f
  <2> QED
    BY <1>1, <1>2, <2>1, <2>2, <2>3, Moved DEF Excursion, Senders
<1> QED
  BY <1>3, <1>4 DEF Auth, Return, Pass, Goto, CallFrom

\* The frame below the top.
LEMMA Second ==
  ASSUME FInv, stack # <<>>, NEW lo, lo = Tail(stack), lo # <<>>
  PROVE  /\ Suits(lo[1], Tail(lo)) /\ IsSeq(Tail(lo)) /\ Pushes(lo, lo[1], Tail(lo))
         /\ \A labels : Has(lo, labels) <=> lo[1].at \in labels \/ Has(Tail(lo), labels)
         /\ AllCarry(lo) <=> Carries(lo[1]) /\ AllCarry(Tail(lo))
         /\ Tail(lo) = <<>> => Len(stack) = 2
         /\ Tail(lo) # <<>> =>
              Len(stack) >= 3 /\ stack[3] = Tail(lo)[1]
              /\ Tail(lo)[1].at \in Callers(lo[1].at)
<1>1. Whole(lo, reader.asked, reader.phase, s.last, Orderly)
  <2>1. Under(stack, reader.asked, reader.phase, s.last, Orderly)
    BY SameLast DEF FInv, StackOK, Stacked
  <2> QED
    BY <2>1, Popped
<1>2. Pushes(lo, lo[1], Tail(lo)) /\ IsSeq(Tail(lo))
      /\ (Tail(lo) = <<>> <=> Len(Tail(lo)) = 0)
  BY <1>1, TailIs DEF Whole, Pushes
<1>3. Suits(lo[1], Tail(lo))
  <2>1. 1 \in 1..Len(lo)
    BY <1>2 DEF Pushes
  <2> QED
    BY <1>1, <1>2, <2>1, FitTop DEF Whole, Suits
<1>4. /\ \A labels : Has(lo, labels) <=> lo[1].at \in labels \/ Has(Tail(lo), labels)
      /\ AllCarry(lo) <=> Carries(lo[1]) /\ AllCarry(Tail(lo))
  BY <1>2, HasIs, Beneath
<1>5. Pushes(stack, Top, lo)
  BY TopFits
<1>6. Tail(lo) = <<>> => Len(stack) = 2
  BY <1>2, <1>5 DEF Pushes
<1>7. ASSUME Tail(lo) # <<>>
      PROVE  Len(stack) >= 3 /\ stack[3] = Tail(lo)[1]
             /\ Tail(lo)[1].at \in Callers(lo[1].at)
  <2>1. 1 \in 1..Len(Tail(lo)) /\ 2 \in 1..Len(lo) /\ Len(stack) >= 3
    BY <1>2, <1>5, <1>7 DEF Pushes
  <2>2. lo[1+1] = Tail(lo)[1] /\ stack[2+1] = lo[2]
    BY <1>2, <1>5, <2>1 DEF Pushes
  <2> QED
    BY <1>3, <1>7, <2>1, <2>2 DEF Suits, Fits
<1> QED
  BY <1>2, <1>3, <1>4, <1>6, <1>7

LEMMA CheckersAre ==
  /\ \A label \in CheckFam :
       Callers(label) = {"answered", "capsAnswered", "greeted", "readerAnswered"}
  /\ Callers("answered") \cap Carriers = {}
  /\ Callers("greeted") = {"reconnected"}
  BY DEF Callers, CommandFam, TimeoutFam, Excursion, AuthFam, AuthRest, CheckFam, AskFam,
         RefreshFam, TlsFam, ConnectFam, Carriers

\* A check that is not of the greeting is not below one of the greeting.
LEMMA Ungreeted ==
  ASSUME FInv, stack # <<>>, Top.at \in CheckFam,
         NEW lo, lo = Tail(stack), stack[2].at # "greeted" \/ Top.at \notin Reading
  PROVE  /\ lo # <<>> /\ lo[1] = stack[2] /\ Len(stack) >= 2 /\ NoGreeted(lo)
         /\ lo[1].at \in {"answered", "capsAnswered", "readerAnswered"}
<1>1. Suits(Top, lo) /\ Top.at \notin Outer
  BY TopFits DEF CheckFam, Outer, AskFam, ConnectFam, QuitFam
<1>2. lo # <<>>
  BY <1>1 DEF Suits, Fits
<1>3. lo[1] = stack[2] /\ Len(stack) >= 2
      /\ lo[1].at \in {"answered", "capsAnswered", "greeted", "readerAnswered"}
  BY <1>2, TopFits, CheckersAre
<1>4. Suits(lo[1], Tail(lo)) /\ (NoGreeted(lo) <=> lo[1].at # "greeted" /\ NoGreeted(Tail(lo)))
  BY <1>2, Second DEF NoGreeted
<1>5. NoGreeted(Tail(lo))
  BY <1>3, <1>4 DEF Suits, Fits, Reading
<1>6. lo[1].at # "greeted"
  BY <1>1, <1>3, <1>4 DEF Suits, Fits
<1> QED
  BY <1>2, <1>3, <1>4, <1>5, <1>6

\* A call returns with its reply under way.
LEMMA Hands ==
  ASSUME FInv, stack # <<>>, Shapes', stack' = Tail(stack), ret' = 1,
         reader'.asked = reader.asked, reader'.phase = reader.phase,
         s'.allowTimeout = s.allowTimeout, srv'.up => s'.up, Coming',
         Whole(stack', reader.asked, reader.phase, s'.last, Orderly'),
         Has(stack', Excursion) => s'.handling,
         Top.at \in CommandFam \cup TimeoutFam \cup AuthFam,
         Heavy(s'.last) => Bulky(Tail(stack), reader.asked),
         Caps(s'.last) /\ Orderly' => CapsAt(Tail(stack), 1),
         Tail(stack)[1].at = "authorised" => Tail(stack)[1].cmd.verb # "MODE_READER",
         Tail(stack)[1].at = "timedOut" => NoGreeted(Tail(stack))
  PROVE  FInv'
<1> DEFINE lo == Tail(stack)
<1>1. lo # <<>>
  BY TopFits DEF Suits, Fits, Outer, AskFam, ConnectFam, QuitFam, CommandFam, TimeoutFam,
                 Excursion, AuthFam, AuthRest
<1>2. lo[1].at \in Callers(Top.at)
  BY <1>1, TopFits
<1>3. lo[1].at \in Senders \cup {"timedOut", "authorised"}
  BY <1>2 DEF Callers, CommandFam, TimeoutFam, AuthFam
<1>4. stack' # <<>> /\ Top' = lo[1]
  BY <1>1, TopFits, TailIs DEF Top
<1>5. InFlight'
  BY <1>3, <1>4 DEF InFlight
<1>6. Flow'
  BY <1>5 DEF Flow
<1>7. ~At("write")' /\ ~At("check")' /\ ~At("checked")' /\ ~At("timeout")'
  BY <1>3, <1>4 DEF At, Senders
<1>8. GreetOK'
  <2>1. ASSUME Len(stack') >= 2, stack'[2].at = "greeted"
        PROVE  Top'.at # "timedOut"
    <3>1. 2 \in 1..Len(lo)
      BY <1>1, <2>1, Second DEF Pushes
    <3>2. ~NoGreeted(lo)
      BY <2>1, <3>1 DEF NoGreeted, Has
    <3> QED
      BY <1>4, <3>2
  <2> QED
    BY <1>4, <1>7, <2>1 DEF GreetOK, At
<1>9. WaitOK'
  BY <1>4 DEF WaitOK, CapsAt, At
<1>10. AnswerOK'
  BY DEF AnswerOK, Bulky
<1>11. HandlingOK' /\ PhaseOK'
  BY DEF FInv, HandlingOK, PhaseOK
<1> QED
  BY <1>6, <1>7, <1>8, <1>9, <1>10, <1>11 DEF FInv, StackOK, Stacked, WriteOK

LEMMA KeepAuthDone == FInv /\ AuthDone => FInv'
<1> SUFFICES ASSUME FInv, AuthDone
             PROVE  FInv'
  OBVIOUS
<1>1. stack # <<>> /\ Top.at = "authDone" /\ ret \in -2..1 /\ IsFrame(Top)
      /\ Suits(Top, Tail(stack))
  BY TopFits DEF AuthDone, At, FInv, Shapes, Suits, Fits
<1>2. CASE Top.cmd.verb = "MODE_READER"
  <2>1. stack' = Tail(stack) /\ ret' = 1 /\ Inside
        /\ s' = [s EXCEPT !.last = Top.cmd, !.ser = Top.note]
    BY <1>2 DEF AuthDone, Return
  <2>2. Tail(stack) # <<>> /\ Tail(stack)[1].at = "authorised" /\ Tail(stack)[1].cmd = Top.cmd
    BY <1>1, <1>2 DEF Suits, Fits, AuthRest, MatchAuth, Outer, AskFam, ConnectFam, QuitFam
  <2>3. stack' # <<>> /\ Top' = Tail(stack)[1]
    BY <1>1, <2>1, <2>2, TopFits, TailIs DEF Top
  <2>4. DOMAIN s' = DOMAIN s /\ s'.last = Top.cmd /\ s'.cmdOk = s.cmdOk /\ s'.up = s.up
        /\ s'.handling = s.handling /\ s'.allowTimeout = s.allowTimeout
    BY <2>1 DEF FInv, Shapes
  <2>5. Settled
    BY <2>1, <2>4 DEF Settled, FInv, Shapes, Inside, World
  <2>6. Calm
    BY <1>1, <2>1, <2>4, QuietHere, QuietIsCalm DEF InFlight, Senders, Inside
  <2>7. LastFits
    BY <1>2, <2>4 DEF LastFits, Heavy
  <2>8. Whole(stack', reader.asked, reader.phase, s'.last, Orderly)
    BY <1>1, <2>1, <2>7, StackUnder, Popped
  <2>9. /\ Has(stack', Excursion) <=> Has(stack, Excursion)
        /\ Has(stack', {"timedOut"}) => Has(stack, {"timedOut"})
    BY <1>1, <2>1, TopFits DEF Excursion
  <2>10. ~InFlight'
    BY <1>2, <2>2, <2>3 DEF InFlight, Senders
  <2> QED
    BY <1>1, <2>2, <2>3, <2>5, <2>6, <2>8, <2>9, <2>10, Stays
<1>3. CASE Top.cmd.verb # "MODE_READER"
  <2>1. Call(To("authResent"), Plain("command", Top.cmd)) /\ UNCHANGED s /\ Inside
    BY <1>3 DEF AuthDone, CallFrom
  <2>2. Settled /\ Calm
    BY <1>1, <2>1, Idle DEF InFlight, Senders, Kept, Call
  <2> QED
    BY <1>1, <1>3, <2>1, <2>2, ToIs, Sends
       DEF Kin, AuthRest, Senders, Carriers, Holding, Resenders
<1> QED
  BY <1>2, <1>3

LEMMA KeepAuthResent == FInv /\ AuthResent => FInv'
<1> SUFFICES ASSUME FInv, AuthResent
             PROVE  FInv'
  OBVIOUS
<1>1. stack # <<>> /\ Top.at = "authResent" /\ ret \in -2..1 /\ IsFrame(Top)
      /\ Suits(Top, Tail(stack))
  BY TopFits DEF AuthResent, At, FInv, Shapes, Suits, Fits
<1>2. stack' = Tail(stack) /\ UNCHANGED s /\ Inside
  BY DEF AuthResent, Return
<1>3. CASE ret # 1
  <2>1. ret' = -2
    BY <1>1, <1>3 DEF AuthResent, Return
  <2>2. Settled /\ LastFits /\ Calm
    BY <1>1, <1>2, <1>3, <2>1, Idle DEF InFlight, Kept
  <2> QED
    BY <1>1, <1>2, <2>1, <2>2, Returned
       DEF TimeoutFam, Excursion
<1>4. CASE ret = 1
  <2>1. ret' = 1 /\ InFlight
    BY <1>1, <1>4 DEF AuthResent, Return, InFlight, Senders
  <2>2. Coming' /\ Shapes' /\ (srv'.up => s'.up)
    BY <1>2, <2>1 DEF FInv, Flow, Coming, Leftover, Inside, World, Shapes
  <2>3. /\ Has(stack', Excursion) <=> Has(stack, Excursion)
    BY <1>1, <1>2, TopFits DEF Excursion
  <2>4. Orderly' <=> Orderly
    BY <1>2, <2>3 DEF Orderly
  <2>5. Whole(stack', reader.asked, reader.phase, s'.last, Orderly')
    <3>1. Whole(stack', reader.asked, reader.phase, s'.last, Orderly)
      BY <1>1, <1>2, StackUnder, Popped DEF LastFits
    <3> QED
      BY <2>4, <3>1, Weaker
  <2>6. /\ Heavy(s.last) => Bulky(Tail(stack), reader.asked)
        /\ Caps(s.last) /\ Orderly => CapsAt(Tail(stack), 1)
    <3>1. /\ Heavy(s.last) => Long(reader.asked) /\ AllCarry(stack)
          /\ Caps(s.last) /\ Orderly => CapsAt(stack, 1)
      BY <1>1, <2>1 DEF FInv, AnswerOK
    <3>2. ASSUME Caps(s.last), Orderly
          PROVE  CapsAt(Tail(stack), 1)
      <4>1. Caps(Top.cmd)
        BY <1>1, <3>1, <3>2, TopFits DEF CapsAt
      <4> QED
        BY <1>1, <3>2, <4>1 DEF Suits, Fits, Resenders, AuthRest
    <3> QED
      BY <1>1, <3>1, <3>2, TopFits DEF Bulky
  <2>7. Tail(stack)[1].at = "authorised" => Tail(stack)[1].cmd.verb # "MODE_READER"
    BY <1>1 DEF Suits, Fits, AuthRest, MatchAuth
  <2>8. Tail(stack)[1].at # "timedOut"
    BY <1>1 DEF Suits, Fits, Outer, AskFam, ConnectFam, QuitFam, Callers, CommandFam,
                TimeoutFam, Excursion, AuthFam, AuthRest, Senders
  <2>9. Has(stack', Excursion) => s'.handling
    BY <1>2, <2>3 DEF FInv, HandlingOK
  <2> QED
    BY <1>1, <1>2, <2>1, <2>2, <2>4, <2>5, <2>6, <2>7, <2>8, <2>9, Hands
       DEF Inside, World, AuthFam, AuthRest
<1> QED
  BY <1>3, <1>4

LEMMA KeepCheckResent == FInv /\ CheckResent => FInv'
<1> SUFFICES ASSUME FInv, CheckResent
             PROVE  FInv'
  OBVIOUS
<1>1. stack # <<>> /\ Top.at = "resent" /\ ret \in -2..1 /\ IsFrame(Top)
      /\ Suits(Top, Tail(stack))
  BY TopFits DEF CheckResent, At, FInv, Shapes, Suits, Fits
<1>2. CASE ret <= 0
  <2>1. Settled /\ LastFits /\ Calm
    BY <1>1, <1>2, Idle DEF CheckResent, Return, Kept, InFlight, Senders
  <2> QED
    BY <1>1, <1>2, <2>1, Returned
       DEF CheckResent, Return, TimeoutFam, Excursion, CommandFam, AuthFam, AuthRest
<1>3. CASE ~(ret <= 0)
  <2>1. InFlight
    BY <1>1, <1>3 DEF InFlight, Senders
  <2> DEFINE f == [To("check") EXCEPT !.note = @ \cup {"tls"}]
  <2>2. IsFrame(f) /\ f.at = "check"
    BY <1>1 DEF IsFrame, To
  <2>3. Jump(f) /\ UNCHANGED <<s, srv, reader, ret>>
    BY <1>3 DEF CheckResent, Inside, World
  <2> HIDE DEF f
  <2> QED
    BY <1>1, <2>1, <2>2, <2>3, ReadsAgain
<1> QED
  BY <1>2, <1>3

LEMMA KeepCheckAuthorised == FInv /\ CheckAuthorised => FInv'
<1> SUFFICES ASSUME FInv, CheckAuthorised
             PROVE  FInv'
  OBVIOUS
<1>1. stack # <<>> /\ Top.at = "authorised" /\ ret \in -2..1 /\ IsFrame(Top)
      /\ Suits(Top, Tail(stack))
  BY TopFits DEF CheckAuthorised, At, FInv, Shapes, Suits, Fits
<1>2. CASE ret > 0 /\ Top.cmd.verb # "MODE_READER"
  <2>1. InFlight
    BY <1>1, <1>2 DEF InFlight
  <2>2. Jump(To("check")) /\ UNCHANGED <<s, srv, reader, ret>>
    BY <1>2 DEF CheckAuthorised, Goto, Inside, World
  <2> QED
    BY <1>1, <2>1, <2>2, ToIs, ReadsAgain
<1>3. CASE ~(ret > 0 /\ Top.cmd.verb # "MODE_READER")
  <2>1. s' = (IF ret > 0 THEN Remembered ELSE s) /\ stack' = Tail(stack) /\ ret' = ret /\ Inside
    BY <1>3 DEF CheckAuthorised, CheckFinish, Return
  <2>2. Kept /\ s'.cmdOk = s.cmdOk /\ s'.up = s.up
    BY <2>1 DEF Remembered, Kept, FInv, Shapes
  <2>3. Settled /\ LastFits /\ Calm
    BY <1>1, <1>3, <2>1, <2>2, Idle DEF InFlight, Senders
  <2> QED
    BY <1>1, <2>1, <2>3, Returned DEF TimeoutFam, Excursion, CommandFam, AuthFam, AuthRest
<1> QED
  BY <1>2, <1>3

LEMMA KeepCheckUpgraded == FInv /\ CheckUpgraded => FInv'
<1> SUFFICES ASSUME FInv, CheckUpgraded
             PROVE  FInv'
  OBVIOUS
<1>1. stack # <<>> /\ Top.at = "upgraded" /\ ret \in -2..1 /\ IsFrame(Top)
      /\ Suits(Top, Tail(stack))
  BY TopFits DEF CheckUpgraded, At, FInv, Shapes, Suits, Fits
<1>2. Settled /\ LastFits /\ Calm
  BY <1>1, Idle DEF CheckUpgraded, Return, CallFrom, Call, Kept, InFlight, Senders
<1>3. CASE ret < 0
  BY <1>1, <1>2, <1>3, Returned
     DEF CheckUpgraded, Return, TimeoutFam, Excursion, CommandFam, AuthFam, AuthRest
<1>4. CASE ~(ret < 0)
  <2>1. Call(To("resent"), Plain("command", Top.cmd)) /\ s' = s
    BY <1>4 DEF CheckUpgraded, CallFrom
  <2> QED
    BY <1>1, <1>2, <2>1, ToIs, Sends
       DEF Kin, Repairs, Senders, Carriers, Holding, Resenders
<1> QED
  BY <1>3, <1>4

LEMMA KeepAnswered == FInv /\ Answered => FInv'
<1> SUFFICES ASSUME FInv, Answered
             PROVE  FInv'
  OBVIOUS
<1>1. stack # <<>> /\ Top.at = "answered" /\ ret \in -2..1 /\ IsFrame(Top)
      /\ Suits(Top, Tail(stack))
  BY TopFits DEF Answered, At, FInv, Shapes, Suits, Fits
<1>2. stack' = Tail(stack) /\ UNCHANGED s /\ Inside /\ ret' \in -2..1 /\ (ret = 1 => ret' = 1)
  BY <1>1 DEF Answered, Return, GroupResult
<1>3. Settled /\ LastFits
  BY <1>2 DEF Settled, LastFits, FInv, Shapes, Inside, World
<1>4. Calm \/ Still'
  <2>1. (srv.up => s.up) /\ (Quiet \/ (Leftover /\ UnreadLong))
    BY <1>1 DEF FInv, Flow, InFlight, Senders, UnreadCaps, At
  <2>2. CASE Quiet
    BY <1>2, <2>1, <2>2, QuietIsCalm DEF Inside
  <2>3. CASE Leftover /\ UnreadLong
    <3>1. ret = 1 /\ Long(reader.asked) /\ Len(stack) = 1
      BY <1>1, <2>3 DEF UnreadLong, At
    <3>2. Tail(stack) = <<>>
      BY <1>1, <3>1, TopFits, TailIs DEF Pushes
    <3>3. reader.phase \in {"fetching", "listing"}
      BY <1>1, <3>1 DEF FInv, PhaseOK
    <3> QED
      BY <1>2, <2>1, <2>3, <3>1, <3>2, <3>3 DEF Still, UnreadLong, Leftover, Inside, World
  <2> QED
    BY <2>1, <2>2, <2>3
<1> QED
  BY <1>1, <1>2, <1>3, <1>4, Returned
     DEF TimeoutFam, Excursion, CommandFam, AuthFam, AuthRest

LEMMA KeepRefreshAnswered == FInv /\ RefreshAnswered => FInv'
<1> SUFFICES ASSUME FInv, RefreshAnswered
             PROVE  FInv'
  OBVIOUS
<1>1. stack # <<>> /\ Top.at = "capsAnswered" /\ ret \in -2..1 /\ IsFrame(Top)
      /\ Suits(Top, Tail(stack))
  BY TopFits DEF RefreshAnswered, At, FInv, Shapes, Suits, Fits
<1>2. stack' = Tail(stack) /\ ret' \in -2..1
  BY DEF RefreshAnswered, Return
<1>3. Settled /\ LastFits /\ Calm
  <2>1. CASE ret <= 0 \/ s.ser.code # 101
    <3>1. UNCHANGED s /\ Inside
      BY <2>1 DEF RefreshAnswered
    <3>2. Quiet /\ (srv.up => s.up)
      BY <1>1, <2>1 DEF FInv, Flow, InFlight, Senders, UnreadCaps, UnreadLong, At
    <3>3. Calm
      BY <3>1, <3>2, QuietIsCalm DEF Inside
    <3> QED
      BY <1>2, <3>1, <3>3 DEF Settled, LastFits, FInv, Shapes, Inside, World
  <2>2. CASE ~(ret <= 0 \/ s.ser.code # 101) /\ srv.out = <<>>
    <3>1. s' = Closed([s EXCEPT !.ser = Own(503)]) /\ srv' = NoServer /\ UNCHANGED World
      BY <2>2 DEF RefreshAnswered, Close
    <3> DEFINE t == [s EXCEPT !.ser = Own(503)]
    <3>2. /\ DOMAIN t = DOMAIN s /\ t.last = s.last /\ t.handling = s.handling
          /\ t.allowTimeout = s.allowTimeout
      BY DEF FInv, Shapes
    <3>3. s' = Closed(t)
      BY <3>1
    <3> HIDE DEF t
    <3>4. Kept
      BY <3>2, <3>3, ClosedIs DEF Kept
    <3> QED
      BY <1>2, <3>1, <3>4, Closing
  <2>3. CASE ~(ret <= 0 \/ s.ser.code # 101) /\ srv.out # <<>>
    <3>1. /\ s' = [s EXCEPT !.known = TRUE, !.caps = Offered, !.cmdOk = TRUE]
          /\ srv' = [srv EXCEPT !.out = <<>>] /\ UNCHANGED World
      BY <2>3 DEF RefreshAnswered
    <3>2. Kept /\ s'.up = s.up /\ srv'.up = srv.up /\ srv'.out = <<>> /\ DOMAIN srv' = DOMAIN srv
      BY <3>1 DEF Kept, FInv, Shapes
    <3>3. Calm
      BY <3>2 DEF Calm, Leftover, Unread, FInv, Flow
    <3> QED
      BY <1>2, <3>1, <3>2, <3>3 DEF Settled, LastFits, FInv, Shapes, World, Kept
  <2> QED
    BY <2>1, <2>2, <2>3
<1> QED
  BY <1>1, <1>2, <1>3, Returned
     DEF TimeoutFam, Excursion, CommandFam, AuthFam, AuthRest

\* The reply that check has read.
LEMMA Judged ==
  ASSUME FInv, stack # <<>>, Settled, s'.last = s.last,
         Top.at \in {"check", "timedOut"}, NEW f, IsFrame(f), f.at = "checked", Jump(f),
         Caps(s.last) /\ Orderly => Tail(stack)[1].at \in {"capsAnswered", "greeted"},
         Tail(stack)[1].at = "greeted" => s'.ser.code \in {200, 205, 503},
         Calm \/ Still'
  PROVE  FInv'
<1>1. Suits(Top, Tail(stack)) /\ IsSeq(Tail(stack))
  BY TopFits
<1>2. WillFit(f, Tail(stack))
  BY <1>1, CheckersAre
     DEF WillFit, Suits, Fits, CheckFam, Outer, AskFam, ConnectFam, QuitFam, Holding,
         CommandFam, Resenders, Excursion, AuthRest, Reading, Watching
<1>3. Whole(stack', reader.asked, reader.phase, s'.last, Orderly)
  BY <1>2, StackUnder, Jumped DEF WillFit, LastFits, Jump
<1>4. Pushes(stack', f, Tail(stack))
  BY <1>1, PushIs DEF Jump
<1>5. Has(stack', Excursion) <=> Has(stack, Excursion)
  BY <1>4, HasIs, TopFits DEF Excursion
<1>6. stack' # <<>> /\ Top' = f /\ (Len(stack') >= 2 => stack'[2] = Tail(stack)[1])
  BY <1>1, JumpIs
<1>7. ~InFlight'
  BY <1>6 DEF InFlight, Senders
<1>8. Flow'
  <2>1. CASE Still'
    BY <1>7, <2>1 DEF Flow, Still
  <2>2. CASE Calm
    <3>1. Has(stack', {"timedOut"}) => Has(stack, {"timedOut"})
      BY <1>4, HasIs, TopFits
    <3> QED
      BY <1>7, <2>2, <3>1 DEF Flow, Calm, Quiet
  <2> QED
    BY <2>1, <2>2
<1>9. StackOK'
  BY <1>3, <1>5, Weaker DEF StackOK, Stacked, Orderly, Settled
<1>10. WriteOK' /\ GreetOK' /\ WaitOK' /\ AnswerOK'
  <2>1. WriteOK'
    BY <1>6 DEF WriteOK, At
  <2>2. GreetOK'
    <3>1. Top'.at = "checked"
      BY <1>6
    <3>2. ASSUME Len(stack') >= 2, stack'[2].at = "greeted"
          PROVE  s'.ser.code \in {200, 205, 503}
      <4>1. stack'[2] = Tail(stack)[1]
        BY <1>6, <3>2
      <4>2. Tail(stack)[1].at = "greeted"
        BY <3>2, <4>1
      <4> QED
        BY <4>2
    <3> QED
      BY <3>1, <3>2 DEF GreetOK
  <2>3. WaitOK'
    BY <1>6 DEF WaitOK, At
  <2>4. AnswerOK'
    BY <1>7 DEF AnswerOK
  <2> QED
    BY <2>1, <2>2, <2>3, <2>4
<1>11. HandlingOK' /\ PhaseOK'
  BY <1>5, <1>6 DEF FInv, HandlingOK, PhaseOK, Settled
<1> QED
  BY <1>8, <1>9, <1>10, <1>11 DEF FInv, Settled

LEMMA KeepCheckTimedOut == FInv /\ CheckTimedOut => FInv'
<1> SUFFICES ASSUME FInv, CheckTimedOut
             PROVE  FInv'
  OBVIOUS
<1>1. stack # <<>> /\ Top.at = "timedOut" /\ ret \in -2..1 /\ IsFrame(Top)
      /\ Suits(Top, Tail(stack))
  BY TopFits DEF CheckTimedOut, At, FInv, Shapes, Suits, Fits
<1>2. CASE ret = 1
  <2>1. InFlight
    BY <1>1, <1>2 DEF InFlight
  <2> DEFINE f == [To("check") EXCEPT !.note = @ \cup {"timeout"}]
  <2>2. IsFrame(f) /\ f.at = "check"
    BY <1>1 DEF IsFrame, To
  <2>3. Jump(f) /\ UNCHANGED <<s, srv, reader, ret>>
    BY <1>2 DEF CheckTimedOut, Inside, World
  <2> HIDE DEF f
  <2> QED
    BY <1>1, <2>1, <2>2, <2>3, ReadsAgain
<1>3. CASE ret # 1
  <2>1. s' = Read(IF ret = 0 THEN Own(205) ELSE s.ser) /\ Jump(To("checked"))
        /\ UNCHANGED ret /\ Inside
    BY <1>3 DEF CheckTimedOut, Goto
  <2>2. Kept /\ s'.up = s.up /\ s'.ser = IF ret = 0 THEN Own(205) ELSE s.ser
    BY <2>1 DEF Read, Kept, FInv, Shapes
  <2>3. Settled
    BY <1>1, <2>1, <2>2 DEF Settled, FInv, Shapes, Inside, World, Kept
  <2>4. Calm
    <3>1. Quiet /\ (srv.up => s.up) /\ Has(stack, {"timedOut"})
      BY <1>1, <1>3, QuietHere, TopFits DEF InFlight, Senders
    <3> QED
      BY <2>1, <2>2, <3>1 DEF Calm, Quiet, Leftover, Unread, Inside
  <2>5. Tail(stack) # <<>> /\ stack[2] = Tail(stack)[1] /\ Len(stack) >= 2
    BY <1>1, TopFits DEF Suits, Fits, Outer, AskFam, ConnectFam, QuitFam
  <2>6. Caps(s.last) /\ Orderly => Tail(stack)[1].at \in {"capsAnswered", "greeted"}
    BY <1>1, <2>5 DEF FInv, WaitOK, At
  <2>7. Tail(stack)[1].at = "greeted" => s'.ser.code \in {200, 205, 503}
    BY <1>1, <2>2, <2>5 DEF FInv, GreetOK, Own, Reply
  <2> DEFINE f == To("checked")
  <2>8. IsFrame(f) /\ f.at = "checked" /\ Jump(f)
    BY <1>1, <2>1, ToIs
  <2>9. s'.last = s.last
    BY <2>2 DEF Kept
  <2> HIDE DEF f
  <2> QED
    BY <1>1, <2>3, <2>4, <2>6, <2>7, <2>8, <2>9, Judged
<1> QED
  BY <1>2, <1>3

LEMMA KeepCheckJudge == FInv /\ CheckJudge => FInv'
<1> SUFFICES ASSUME FInv, CheckJudge
             PROVE  FInv'
  OBVIOUS
<1>1. stack # <<>> /\ Top.at = "checked" /\ ret \in -2..1 /\ IsFrame(Top)
      /\ Suits(Top, Tail(stack)) /\ IsSeq(Tail(stack)) /\ At("checked")
  BY TopFits DEF CheckJudge, At, FInv, Shapes, Suits, Fits
<1>2. (srv.up => s.up) /\ (Quiet \/ (Leftover /\ (UnreadCaps \/ UnreadLong)))
  BY <1>1 DEF FInv, Flow, InFlight, Senders
<1>3. Inside
  BY DEF CheckJudge
<1>4. ASSUME s.ser.code \in {480, 483}, s' = s, ret' = ret
      PROVE  /\ Settled /\ LastFits /\ Calm
             /\ Tail(stack) # <<>> /\ NoGreeted(Tail(stack))
             /\ Tail(stack)[1].at \in {"answered", "capsAnswered", "readerAnswered"}
             /\ Heavy(s.last) => Bulky(Tail(stack), reader.asked)
             /\ Caps(s.last) /\ Orderly => CapsAt(Tail(stack), 1)
  <2>1. Quiet
    BY <1>1, <1>2, <1>4 DEF UnreadCaps, UnreadLong, At
  <2>2. Settled /\ LastFits /\ Calm
    BY <1>2, <1>3, <1>4, <2>1, QuietIsCalm
       DEF Settled, LastFits, FInv, Shapes, Inside, World
  <2>3. Len(stack) >= 2 => stack[2].at # "greeted"
    BY <1>1, <1>4 DEF FInv, GreetOK
  <2>4. /\ Tail(stack) # <<>> /\ NoGreeted(Tail(stack))
        /\ Tail(stack)[1].at \in {"answered", "capsAnswered", "readerAnswered"}
    <3>1. Top.at \in CheckFam /\ Top.at \notin Outer
      BY <1>1 DEF CheckFam, Outer, AskFam, ConnectFam, QuitFam
    <3>2. Len(stack) >= 2
      BY <1>1, <3>1, TopFits DEF Suits, Fits
    <3> QED
      BY <1>1, <2>3, <3>1, <3>2, Ungreeted
  <2>5. /\ Heavy(s.last) => Bulky(Tail(stack), reader.asked)
        /\ Caps(s.last) /\ Orderly => CapsAt(Tail(stack), 1)
    BY <1>1, <2>4 DEF Suits, Fits, Watching, Reading, CapsAt
  <2> QED
    BY <2>2, <2>4, <2>5
<1> DEFINE t(label) == [To(label) EXCEPT !.cmd = s.last]
<1>5. CASE WantsTls
  <2>1. Call(t("upgraded"), Plain("startTls", NoCmd)) /\ s' = s /\ s.ser.code \in {480, 483}
        /\ ret' = ret
    BY <1>5 DEF CheckJudge, WantsTls, Call
  <2>2. IsFrame(t("upgraded")) /\ t("upgraded").at = "upgraded" /\ t("upgraded").cmd = s.last
    BY <1>1 DEF IsFrame, To
  <2> HIDE DEF t
  <2>3. WillFit(t("upgraded"), Tail(stack))
    BY <1>1, <1>4, <2>1, <2>2, CheckersAre
       DEF WillFit, Fits, CheckFam, Holding, Watching, Reading, CommandFam, AskFam,
           Resenders, Excursion, AuthRest
  <2>4. WillFit(Plain("startTls", NoCmd), <<t("upgraded")>> \o Tail(stack))
    <3>1. t("upgraded").at \in Callers("startTls")
      BY <2>2 DEF Callers, CommandFam, TimeoutFam, Excursion, AuthFam, AuthRest, CheckFam,
                  AskFam, RefreshFam, TlsFam, ConnectFam
    <3>2. NoGreeted(Tail(stack)) /\ t("upgraded").at # "greeted"
      BY <1>4, <2>1, <2>2
    <3> QED
      BY <1>1, <3>1, <3>2, CalleeFits DEF WillFit
  <2>5. Plain("startTls", NoCmd).at = "startTls"
    BY DEF Plain, Frame
  <2> QED
    BY <1>1, <1>4, <2>1, <2>2, <2>3, <2>4, <2>5, Calls DEF Call, Excursion, Senders
<1>6. CASE ~WantsTls /\ WantsAuth
  <2>1. Call(t("authorised"), Plain("auth", NoCmd)) /\ s' = s /\ s.ser.code \in {480, 483}
        /\ ret' = ret
    BY <1>6 DEF CheckJudge, WantsAuth, Call
  <2>2. IsFrame(t("authorised")) /\ t("authorised").at = "authorised"
        /\ t("authorised").cmd = s.last
    BY <1>1 DEF IsFrame, To
  <2> HIDE DEF t
  <2>3. WillFit(t("authorised"), Tail(stack))
    BY <1>1, <1>4, <2>1, <2>2, CheckersAre
       DEF WillFit, Fits, CheckFam, Holding, Watching, Reading, CommandFam, AskFam,
           Resenders, Excursion, AuthRest
  <2>4. WillFit(Plain("auth", NoCmd), <<t("authorised")>> \o Tail(stack))
    <3>1. Plain("auth", NoCmd).at = "auth" /\ IsFrame(Plain("auth", NoCmd))
      BY DEF Plain, Frame, IsFrame
    <3>2. /\ <<t("authorised")>> \o Tail(stack) # <<>>
          /\ (<<t("authorised")>> \o Tail(stack))[1] = t("authorised")
          /\ NoGreeted(<<t("authorised")>> \o Tail(stack))
          /\ Heavy(s.last) => Bulky(<<t("authorised")>> \o Tail(stack), reader.asked)
          /\ Caps(s.last) => CapsAt(<<t("authorised")>> \o Tail(stack), 1)
      BY <1>1, <1>4, <2>1, <2>2, OnTop
         DEF NoGreeted, Bulky, Carries, Carriers, CapsAt
    <3>3. t("authorised").at \in Callers("auth")
      BY <2>2 DEF Callers, CommandFam, TimeoutFam, Excursion, AuthFam, AuthRest
    <3>4. MatchAuth(s.last, t("authorised"))
      BY <2>2 DEF MatchAuth
    <3> QED
      BY <2>1, <3>1, <3>2, <3>3, <3>4
         DEF WillFit, Fits, Holding, Watching, Reading, CommandFam, AskFam,
           Resenders, Excursion, AuthRest
  <2>5. Plain("auth", NoCmd).at = "auth"
    BY DEF Plain, Frame
  <2> QED
    BY <1>1, <1>4, <2>1, <2>2, <2>3, <2>4, <2>5, Calls DEF Call, Excursion, Senders
<1>7. CASE ~WantsTls /\ ~WantsAuth
  <2>1. s' = (IF ret > 0 THEN Remembered ELSE s) /\ stack' = Tail(stack) /\ ret' = ret
    BY <1>7 DEF CheckJudge, CheckFinish, Return
  <2>2. Kept /\ s'.cmdOk = s.cmdOk /\ s'.up = s.up /\ s'.ser = s.ser
    BY <2>1 DEF Remembered, Kept, FInv, Shapes
  <2>3. Settled /\ LastFits
    BY <1>1, <1>3, <2>1, <2>2 DEF Settled, LastFits, FInv, Shapes, Kept, Inside, World
  <2>4. Calm \/ Still'
    <3>1. CASE Quiet
      BY <1>2, <1>3, <2>2, <3>1, QuietIsCalm DEF Inside
    <3>2. ASSUME Leftover, UnreadCaps \/ UnreadLong
          PROVE  Still'
      <4>1. Len(stack) >= 2 /\ stack[2] = Tail(stack)[1] /\ Tail(stack) # <<>>
        BY <1>1, TopFits DEF Suits, Fits, Outer, AskFam, ConnectFam, QuitFam
      <4>2. stack' # <<>> /\ Top' = stack[2] /\ Len(stack') = Len(stack) - 1
        BY <1>1, <2>1, <4>1, TopFits, TailIs DEF Top, Pushes
      <4>3. UnreadCaps => UnreadCaps'
        BY <1>1, <2>1, <2>2, <4>2 DEF UnreadCaps, At
      <4>4. UnreadLong => UnreadLong'
        BY <1>1, <1>3, <2>1, <4>2 DEF UnreadLong, At, Inside, World
      <4> QED
        BY <1>2, <1>3, <2>2, <3>2, <4>3, <4>4 DEF Still, Leftover, Inside
    <3> QED
      BY <1>2, <3>1, <3>2
  <2> QED
    BY <1>1, <2>1, <2>3, <2>4, Returned
       DEF TimeoutFam, Excursion, CommandFam, AuthFam, AuthRest
<1> QED
  BY <1>5, <1>6, <1>7

\* A wait below the top belongs to a timeout that is being handled.
LEMMA WaitsAre ==
  ASSUME FInv, stack # <<>>, Top.at = "check", Has(stack, {"timedOut"})
  PROVE  Has(stack, Excursion)
<1>1. PICK i \in 1..Len(stack) : stack[i].at = "timedOut"
  BY DEF Has
<1>2. Len(stack) \in Nat /\ \A j \in 1..Len(stack) :
        Fit(stack, j, reader.asked, reader.phase, s.last, Orderly)
  BY DEF FInv, StackOK, Stacked, Whole, IsSeq
<1>3. i # 1
  BY <1>1, TopFits
<1>4. i - 1 \in 1..Len(stack) /\ i - 1 # Len(stack) /\ (i - 1) + 1 = i
  BY <1>2, <1>3
<1>5. stack[i].at \in Callers(stack[i-1].at)
  BY <1>2, <1>4 DEF Fit
<1>6. stack[i-1].at \in TimeoutFam \cup CommandFam \cup AuthFam
  BY <1>1, <1>5, CallersAre
<1>7. stack[i-1].at \in TimeoutFam
  BY <1>1, <1>5, <1>6, CallersAre
<1>8. i - 1 # 1
  BY <1>7, TopFits DEF TimeoutFam, Excursion
<1>9. i - 2 \in 1..Len(stack) /\ i - 2 # Len(stack) /\ (i - 2) + 1 = i - 1
  BY <1>2, <1>4, <1>8
<1>10. stack[i-1].at \in Callers(stack[i-2].at)
  BY <1>2, <1>9 DEF Fit
<1>11. stack[i-1].at # "timeout"
  BY <1>10, CallersAre
<1> QED
  BY <1>4, <1>7, <1>11 DEF Has, TimeoutFam

\* The line that check reads, and what it leaves of the reply.
Line == IF srv.out = <<>> THEN Own(503) ELSE Head(srv.out)

LEMMA LineIs ==
  ASSUME FInv, CheckRead
  PROVE  /\ srv'.up = srv.up /\ DOMAIN srv' = DOMAIN srv /\ UNCHANGED World
         /\ \/ srv'.out = <<>>
            \/ /\ srv'.out = <<Data>> /\ srv.out # <<>> /\ Manifold(Line.code)
               /\ Line.code \in {215, 220} => Heavy(s.last)
               /\ Line.code = 101 => Caps(s.last)
         /\ Len(stack) >= 2 /\ stack[2].at = "greeted" => Line.code \in {200, 503}
         /\ Line.code = 503 => srv'.out = <<>>
<1>1. stack # <<>> /\ Top.at = "check" /\ Coming
  BY DEF CheckRead, At, FInv, Flow, InFlight
<1>2. srv' = [srv EXCEPT !.out = IF @ = <<>> THEN @ ELSE Tail(@)] /\ UNCHANGED World
  BY DEF CheckRead
<1>3. /\ srv'.up = srv.up /\ DOMAIN srv' = DOMAIN srv
      /\ srv'.out = IF srv.out = <<>> THEN <<>> ELSE Tail(srv.out)
  BY <1>2 DEF FInv, Shapes
<1>4. \/ srv'.out = <<>>
      \/ /\ srv'.out = <<Data>> /\ srv.out # <<>> /\ Manifold(Line.code)
         /\ Line.code \in {215, 220} => Heavy(s.last)
         /\ Line.code = 101 => Caps(s.last)
  <2>1. CASE srv.out = <<>>
    BY <1>3, <2>1
  <2>2. CASE srv.out = <<Data>>
    BY <1>3, <2>2, ReplyIs
  <2>3. ASSUME NEW r, srv.out = <<r>>
        PROVE  srv'.out = <<>>
    BY <1>3, <2>3, ReplyIs
  <2>4. ASSUME NEW r, srv.out = <<r, Data>>, Manifold(r.code),
               r.code \in {215, 220} => Heavy(s.last), r.code = 101 => Caps(s.last)
        PROVE  /\ srv'.out = <<Data>> /\ srv.out # <<>> /\ Manifold(Line.code)
               /\ Line.code \in {215, 220} => Heavy(s.last)
               /\ Line.code = 101 => Caps(s.last)
    <3>1. srv'.out = <<Data>> /\ srv.out # <<>> /\ Line = r
      BY <1>3, <2>4, ReplyIs DEF Line
    <3> QED
      BY <2>4, <3>1
  <2> QED
    BY <1>1, <2>1, <2>2, <2>3, <2>4 DEF Coming, Leftover
<1>5. Len(stack) >= 2 /\ stack[2].at = "greeted" => Line.code \in {200, 503}
  BY <1>1, ReplyIs DEF FInv, GreetOK, Line, Own, Reply
<1>6. Line.code = 503 => srv'.out = <<>>
  BY <1>4 DEF Manifold
<1> QED
  BY <1>2, <1>3, <1>4, <1>5, <1>6

LEMMA CallIs ==
  ASSUME IsSeq(Tail(stack)), NEW t, NEW c, Call(t, c)
  PROVE  /\ Pushes(stack', c, <<t>> \o Tail(stack)) /\ stack' # <<>> /\ Top' = c
         /\ Pushes(<<t>> \o Tail(stack), t, Tail(stack))
         /\ Len(stack') >= 2 => stack'[2] = t
         /\ Len(stack') >= 3 => stack'[3] = Tail(stack)[1]
<1>1. Pushes(stack', c, <<t>> \o Tail(stack)) /\ Pushes(<<t>> \o Tail(stack), t, Tail(stack))
  BY PushIs, TwoIs DEF Call
<1>2. stack' # <<>> /\ Top' = c
  BY <1>1, TopIs DEF Top
<1>3. Len(stack') >= 2 => stack'[2] = t
  <2> DEFINE m == <<t>> \o Tail(stack)
  <2>1. Pushes(stack', c, m) /\ m[1] = t
    BY <1>1 DEF Pushes
  <2> HIDE DEF m
  <2> QED
    BY <2>1, TopIs
<1>4. ASSUME Len(stack') >= 3
      PROVE  stack'[3] = Tail(stack)[1]
  <2> DEFINE lo == Tail(stack)
             m == <<t>> \o lo
  <2>1. Pushes(stack', c, m) /\ Pushes(m, t, lo)
    BY <1>1
  <2> HIDE DEF lo, m
  <2>2. stack'[3] = m[2] /\ Len(m) >= 2
    BY <1>4, <2>1, TopIs
  <2>3. m[2] = lo[1]
    BY <2>1, <2>2, TopIs
  <2> QED
    BY <2>2, <2>3 DEF lo
<1> QED
  BY <1>1, <1>2, <1>3, <1>4

LEMMA ReadTimesOut ==
  ASSUME FInv, CheckRead, Line.code = 503, s.allowTimeout, s' = [s EXCEPT !.ser = Line],
         Call(To("timedOut"), Plain("timeout", NoCmd))
  PROVE  FInv'
<1> DEFINE t == To("timedOut")
           c == Plain("timeout", NoCmd)
<1>1. stack # <<>> /\ Top.at = "check" /\ ret \in -2..1 /\ IsFrame(Top)
      /\ Suits(Top, Tail(stack)) /\ IsSeq(Tail(stack))
  BY TopFits DEF CheckRead, At, FInv, Shapes, Suits, Fits
<1>2. Tail(stack) # <<>> /\ Tail(stack)[1] = stack[2] /\ Len(stack) >= 2
      /\ stack[2].at \in {"answered", "capsAnswered", "greeted", "readerAnswered"}
  BY <1>1, TopFits, CheckersAre
     DEF Suits, Fits, CheckFam, Outer, AskFam, ConnectFam, QuitFam
<1>3. /\ t.at = "timedOut" /\ IsFrame(t) /\ c.at = "timeout" /\ IsFrame(c)
      /\ stack' = <<c, t>> \o Tail(stack) /\ ret' = ret
  BY <1>1, ToIs DEF Plain, Frame, IsFrame, Call
<1> HIDE DEF t, c
<1>4. /\ DOMAIN s' = DOMAIN s /\ s'.last = s.last /\ s'.ser = Line /\ s'.up = s.up
      /\ s'.handling = s.handling /\ s'.allowTimeout = s.allowTimeout
  BY DEF FInv, Shapes
<1>5. WillFit(t, Tail(stack))
  BY <1>1, <1>2, <1>3, <1>4, CheckersAre
     DEF WillFit, Suits, Fits, CheckFam, Holding, Watching, Reading, CommandFam, AskFam,
         Resenders, Excursion, AuthRest
<1>6. WillFit(c, <<t>> \o Tail(stack))
  <2>1. /\ <<t>> \o Tail(stack) # <<>> /\ (<<t>> \o Tail(stack))[1] = t
        /\ NoGreeted(<<t>> \o Tail(stack)) => NoGreeted(Tail(stack))
        /\ AllCarry(Tail(stack)) => AllCarry(<<t>> \o Tail(stack))
        /\ 1 < Len(<<t>> \o Tail(stack)) /\ (<<t>> \o Tail(stack))[1+1] = stack[2]
    <3> DEFINE m == <<t>> \o Tail(stack)
    <3>1. /\ m # <<>> /\ m[1] = t
          /\ AllCarry(m) <=> Carries(t) /\ AllCarry(Tail(stack))
          /\ 1 < Len(m) /\ m[1+1] = Tail(stack)[1]
      BY <1>1, <1>2, OnTop
    <3>2. \A labels : Has(m, labels) <=> t.at \in labels \/ Has(Tail(stack), labels)
      BY <1>1, OnTop
    <3> HIDE DEF m
    <3>3. Carries(t)
      BY <1>3 DEF Carries, Carriers, Holding, CommandFam, AskFam, Resenders, Excursion,
                  AuthRest
    <3>4. NoGreeted(m) => NoGreeted(Tail(stack))
      BY <3>2 DEF NoGreeted
    <3> QED
      BY <1>2, <3>1, <3>3, <3>4 DEF m
  <2>2. t.at \in Callers("timeout")
    BY <1>3 DEF Callers, CommandFam, TimeoutFam
  <2>3. ASSUME Caps(s.last), Orderly, NoGreeted(Tail(stack))
        PROVE  CapsAt(<<t>> \o Tail(stack), 1)
    <3>1. stack[2].at \in {"capsAnswered", "greeted"}
      BY <1>1, <1>2, <2>3 DEF Suits, Fits
    <3>2. stack[2].at # "greeted"
      <4>1. 1 \in 1..Len(Tail(stack))
        BY <1>1, <1>2, TopFits, TailIs DEF Pushes
      <4> QED
        BY <1>2, <2>3, <4>1 DEF NoGreeted, Has
    <3> QED
      BY <1>3, <2>1, <3>1, <3>2 DEF CapsAt
  <2>4. Heavy(s.last) /\ NoGreeted(Tail(stack)) => Bulky(<<t>> \o Tail(stack), reader.asked)
    BY <1>1, <2>1 DEF Suits, Fits, Watching, Reading, Bulky
  <2> QED
    BY <1>3, <1>4, <2>1, <2>2, <2>3, <2>4
       DEF WillFit, Fits, Holding, Watching, Reading, CommandFam, AskFam,
           Resenders, Excursion, AuthRest
<1>7. Whole(stack', reader.asked, reader.phase, s'.last, Orderly)
  BY <1>1, <1>3, <1>4, <1>5, <1>6, StackUnder, Called DEF WillFit, LastFits
<1>8. Pushes(stack', c, <<t>> \o Tail(stack)) /\ Pushes(<<t>> \o Tail(stack), t, Tail(stack))
  BY <1>1, <1>3, PushIs, TwoIs
<1>9. Has(stack', Excursion) <=> Has(stack, Excursion)
  <2>1. \A labels : Has(stack', labels) <=>
                      c.at \in labels \/ t.at \in labels \/ Has(Tail(stack), labels)
    BY <1>8, HasIs
  <2> QED
    BY <1>1, <1>3, <2>1, TopFits DEF Excursion
<1>10. stack' # <<>> /\ Top' = c /\ (Len(stack') >= 2 => stack'[2] = t)
       /\ (Len(stack') >= 3 => stack'[3] = stack[2])
  <2>1. Call(t, c)
    BY DEF t, c
  <2>2. IsSeq(Tail(stack))
    BY <1>1
  <2>3. stack' # <<>> /\ Top' = c
    BY <2>1, <2>2, CallIs
  <2>4. Len(stack') >= 2 => stack'[2] = t
    BY <2>1, <2>2, CallIs
  <2>5. Len(stack') >= 3 => stack'[3] = Tail(stack)[1]
    <3> DEFINE lo == Tail(stack)
               m == <<t>> \o lo
    <3>1. Pushes(stack', c, m) /\ Pushes(m, t, lo)
      BY <1>8
    <3> HIDE DEF lo, m
    <3>2. Len(stack') >= 3 => stack'[3] = m[2] /\ Len(m) >= 2
      BY <3>1, TopIs
    <3>3. Len(m) >= 2 => m[2] = lo[1]
      BY <3>1, TopIs
    <3> QED
      BY <3>2, <3>3 DEF lo
  <2> QED
    BY <1>2, <2>3, <2>4, <2>5
<1>11. Settled
  <2>1. Shapes'
    BY <1>1, <1>3, <1>4, LineIs DEF FInv, Shapes, World
  <2>2. reader' = reader
    BY LineIs DEF World
  <2> QED
    BY <1>4, <2>1, <2>2 DEF Settled
<1>12. ~InFlight'
  BY <1>3, <1>10 DEF InFlight, Senders
<1>13. Flow'
  <2>1. srv'.out = <<>> /\ srv'.up = srv.up
    BY LineIs
  <2> QED
    BY <1>4, <1>12, <2>1 DEF FInv, Flow, Quiet, Leftover, Unread
<1>14. stack[2].at = "greeted" => s.handling
  <2> SUFFICES ASSUME stack[2].at = "greeted"
               PROVE  s.handling
    OBVIOUS
  <2>1. reader.phase # "opening"
    BY DEF FInv, PhaseOK
  <2>2. Suits(stack[2], Tail(Tail(stack)))
    BY <1>1, <1>2, Second
  <2>3. Tail(Tail(stack)) # <<>>
    BY <2>1, <2>2 DEF Suits, Fits, ConnectFam
  <2>4. Tail(Tail(stack))[1].at = "reconnected"
    BY <2>2, <2>3, CheckersAre DEF Suits, Fits
  <2>5. Has(stack, Excursion)
    <3>0. Pushes(Tail(stack), stack[2], Tail(Tail(stack))) /\ IsSeq(Tail(Tail(stack)))
      BY <1>1, <1>2, Second
    <3>1. Pushes(Tail(Tail(stack)), Tail(Tail(stack))[1], Tail(Tail(Tail(stack))))
      BY <2>3, <3>0, TailIs
    <3>2. Has(Tail(Tail(stack)), Excursion)
      <4>1. 1 \in 1..Len(Tail(Tail(stack)))
        BY <3>1 DEF Pushes
      <4> QED
        BY <2>4, <4>1 DEF Has, Excursion
    <3> QED
      BY <1>1, <3>0, <3>2, HasIs, TopFits
  <2> QED
    BY <2>5 DEF FInv, HandlingOK
<1>15. GreetOK'
  BY <1>3, <1>4, <1>10, <1>14 DEF GreetOK
<1>16. StackOK'
  BY <1>7, <1>9, <1>11, Weaker DEF StackOK, Stacked, Orderly, Settled
<1>17. WriteOK' /\ WaitOK' /\ AnswerOK'
  BY <1>3, <1>10, <1>12 DEF WriteOK, WaitOK, AnswerOK, At
<1>18. HandlingOK' /\ PhaseOK'
  BY <1>1, <1>9, <1>11 DEF FInv, HandlingOK, PhaseOK, Settled
<1> QED
  BY <1>11, <1>13, <1>15, <1>16, <1>17, <1>18 DEF FInv, Settled

LEMMA KeepCheckRead == FInv /\ CheckRead => FInv'
<1> SUFFICES ASSUME FInv, CheckRead
             PROVE  FInv'
  OBVIOUS
<1>1. stack # <<>> /\ Top.at = "check" /\ ret \in -2..1 /\ IsFrame(Top)
      /\ Suits(Top, Tail(stack)) /\ IsSeq(Tail(stack)) /\ At("check")
  BY TopFits DEF CheckRead, At, FInv, Shapes, Suits, Fits
<1>2. \/ /\ Line.code = 503 /\ s.allowTimeout /\ s' = [s EXCEPT !.ser = Line]
         /\ Call(To("timedOut"), Plain("timeout", NoCmd))
      \/ /\ s' = Read(Line) /\ Jump(To("checked"))
         /\ ret' = IF srv.out = <<>> THEN -2 ELSE Class(Line.code)
  BY DEF CheckRead, Line, CallFrom, Pass
<1>3. ASSUME s' = Read(Line), Jump(To("checked")),
             ret' = IF srv.out = <<>> THEN -2 ELSE Class(Line.code)
      PROVE  FInv'
  <2>1. /\ DOMAIN s' = DOMAIN s /\ s'.last = s.last /\ s'.ser = Line /\ s'.up = s.up
        /\ s'.handling = s.handling /\ s'.allowTimeout = s.allowTimeout
        /\ Line.code \in {215, 101} => ~s'.cmdOk
    BY <1>3 DEF Read, FInv, Shapes
  <2>2. Settled
    BY <1>1, <1>3, <2>1, LineIs DEF Settled, FInv, Shapes, World, Class
  <2>3. Tail(stack) # <<>> /\ Tail(stack)[1] = stack[2] /\ Len(stack) >= 2
    BY <1>1, TopFits DEF Suits, Fits, Outer, AskFam, ConnectFam, QuitFam
  <2>4. srv.up => s.up
    BY DEF FInv, Flow
  <2>5. stack' # <<>> /\ Top' = To("checked") /\ To("checked").at = "checked"
        /\ IsFrame(To("checked")) /\ (Len(stack') >= 2 => stack'[2] = stack[2])
        /\ Len(stack') = Len(stack)
    BY <1>1, <1>3, <2>3, JumpIs, ToIs, TopFits DEF Pushes
  <2>6. Calm \/ Still'
    <3>1. CASE srv'.out = <<>> \/ ~srv.up
      <4>1. Leftover'
        BY LineIs DEF Leftover, Data, Reply
      <4> QED
        BY <2>1, <2>4, <3>1, <4>1, LineIs DEF Calm, Unread
    <3>2. CASE srv'.out # <<>> /\ srv.up
      <4>1. /\ srv'.out = <<Data>> /\ srv.out # <<>> /\ Manifold(Line.code)
            /\ Line.code \in {215, 220} => Heavy(s.last)
            /\ Line.code = 101 => Caps(s.last)
        BY <3>2, LineIs
      <4>2. stack[2].at # "greeted"
        BY <2>3, <4>1, LineIs DEF Manifold
      <4>3. Leftover' /\ (srv'.up => s'.up)
        BY <2>1, <2>4, <4>1, LineIs DEF Leftover, Data, Reply
      <4>4. CASE Line.code = 101
        <5>1. ret' = 1 /\ ~s'.cmdOk /\ s'.ser.code = 101
          BY <1>3, <2>1, <4>1, <4>4 DEF Class
        <5>2. CASE Orderly
          <6>1. stack[2].at = "capsAnswered"
            BY <1>1, <2>3, <4>1, <4>2, <4>4, <5>2 DEF Suits, Fits
          <6>2. UnreadCaps'
            BY <2>3, <2>5, <5>1, <6>1 DEF UnreadCaps, At
          <6> QED
            BY <4>3, <6>2 DEF Still
        <5>3. CASE ~Orderly
          <6>1. ~Has(stack, {"timedOut"})
            BY <1>1, <5>3, WaitsAre DEF Orderly
          <6> QED
            BY <4>3, <5>1, <6>1 DEF Calm
        <5> QED
          BY <5>2, <5>3
      <4>5. CASE Line.code \in {215, 220}
        <5>1. ret' = 1 /\ s'.ser.code \in {215, 220}
          BY <1>3, <2>1, <4>1, <4>5 DEF Class
        <5>2. NoGreeted(Tail(stack))
          BY <1>1, <4>2, Ungreeted DEF CheckFam
        <5>3. Bulky(Tail(stack), reader.asked)
          BY <1>1, <4>1, <4>5, <5>2 DEF Suits, Fits, Watching, Reading
        <5>4. Carries(stack[2]) /\ AllCarry(Tail(Tail(stack)))
          BY <1>1, <2>3, <5>3, Second DEF Bulky
        <5>5. stack[2].at = "answered"
          BY <1>1, <2>3, <4>2, <5>4, Ungreeted DEF Carries, Carriers, CheckFam
        <5>6. Len(stack) = 2
          <6>1. CASE Tail(Tail(stack)) = <<>>
            BY <1>1, <2>3, <6>1, Second
          <6>2. CASE Tail(Tail(stack)) # <<>>
            <7>1. Tail(Tail(stack))[1].at \in Callers("answered")
              BY <1>1, <2>3, <5>5, <6>2, Second
            <7>2. 1 \in 1..Len(Tail(Tail(stack)))
              BY <1>1, <2>3, <6>2, Second, TailIs
            <7>3. Carries(Tail(Tail(stack))[1])
              BY <5>4, <7>2 DEF AllCarry
            <7> QED
              BY <7>1, <7>3, CheckersAre DEF Carries
          <6> QED
            BY <6>1, <6>2
        <5>7. Long(reader'.asked)
          BY <2>2, <5>3 DEF Bulky, Settled
        <5>8. UnreadLong'
          BY <2>5, <5>1, <5>5, <5>6, <5>7 DEF UnreadLong, At
        <5> QED
          BY <4>3, <5>8 DEF Still
      <4> QED
        BY <4>1, <4>4, <4>5 DEF Manifold
    <3> QED
      BY <3>1, <3>2
  <2>7. Caps(s.last) /\ Orderly => Tail(stack)[1].at \in {"capsAnswered", "greeted"}
    BY <1>1 DEF Suits, Fits
  <2>8. Tail(stack)[1].at = "greeted" => s'.ser.code \in {200, 205, 503}
    BY <2>1, <2>3, LineIs
  <2> QED
    BY <1>1, <1>3, <2>1, <2>2, <2>5, <2>6, <2>7, <2>8, Judged
<1> QED
  BY <1>2, <1>3, ReadTimesOut

LEMMA CodesAre ==
  ASSUME NEW cmd, NEW code \in Codes(cmd)
  PROVE  /\ code \in {215, 220} => Heavy(cmd)
         /\ code = 101 => Caps(cmd)
  BY DEF Codes, Heavy, Caps, Refusals

LEMMA KeepCommand == FInv /\ Command => FInv'
<1> SUFFICES ASSUME FInv, Command
             PROVE  FInv'
  OBVIOUS
<1>1. stack # <<>> /\ Top.at = "command" /\ ret \in -2..1 /\ IsFrame(Top)
      /\ Suits(Top, Tail(stack))
  BY TopFits DEF Command, At, FInv, Shapes, Suits, Fits
<1>2. s' = [s EXCEPT !.last = Top.cmd] /\ Inside
  BY DEF Command
<1>3. /\ DOMAIN s' = DOMAIN s /\ s'.last = Top.cmd /\ s'.cmdOk = s.cmdOk /\ s'.up = s.up
      /\ s'.handling = s.handling /\ s'.allowTimeout = s.allowTimeout
  BY <1>2 DEF FInv, Shapes
<1>4. ret' \in -2..1
  BY <1>1 DEF Command, Become, CallFrom, Call, Pass
<1>5. Settled
  BY <1>2, <1>3, <1>4 DEF Settled, FInv, Shapes, Inside, World
<1>6. LastFits
  BY <1>1, <1>3 DEF LastFits, Suits, Fits, Holding, CommandFam
<1>7. Calm
  BY <1>1, <1>2, <1>3, QuietHere, QuietIsCalm DEF InFlight, Senders, Inside
<1>8. CASE Jump(Plain("timeout", NoCmd))
  <2> DEFINE f == Plain("timeout", NoCmd)
  <2>1. IsFrame(f) /\ f.at = "timeout"
    BY DEF Plain, Frame, IsFrame
  <2>2. stack' = <<f>> \o Tail(stack)
    BY <1>8 DEF Jump
  <2> HIDE DEF f
  <2>3. NoGreeted(Tail(stack))
    BY <1>1 DEF Suits, Fits, Reading
  <2>4. WillFit(f, Tail(stack))
    BY <1>1, <1>3, <2>1, <2>3
       DEF WillFit, Suits, Fits, Callers, CommandFam, TimeoutFam, Outer, AskFam,
           ConnectFam, QuitFam, Holding, Resenders, Excursion, AuthRest, Watching, Reading
  <2> QED
    BY <1>1, <1>5, <1>6, <1>7, <2>1, <2>2, <2>3, <2>4, Moved DEF Excursion, Senders
<1>9. CASE Call(To("protected"), Plain("require", NoCmd))
  BY <1>1, <1>5, <1>6, <1>7, <1>9, ToIs, CallsOn
     DEF Kin, Callers, CommandFam, TimeoutFam, Excursion, AuthFam, AuthRest, CheckFam,
         AskFam, RefreshFam, TlsFam, ConnectFam
<1>10. CASE Jump(To("protected"))
  BY <1>1, <1>5, <1>6, <1>7, <1>10, ToIs, MovesOn DEF Kin, CommandFam, Senders
<1> QED
  BY <1>8, <1>9, <1>10 DEF Command, Become, CallFrom, Pass

\* A command is sent once nothing is left unread.
LEMMA Writes ==
  ASSUME FInv, stack # <<>>, Settled, LastFits, Top.at = "protected", Jump(To("write")),
         s'.last = Top.cmd, Leftover', ~Unread', srv'.up => s'.up
  PROVE  FInv'
<1>1. IsFrame(Top) /\ Suits(Top, Tail(stack)) /\ IsSeq(Tail(stack))
  BY TopFits DEF Suits, Fits
<1>2. To("write").at = "write" /\ IsFrame(To("write")) /\ To("write").cmd = Top.cmd
  BY <1>1, ToIs
<1>3. WillFit(To("write"), Tail(stack))
  <2>1. Kin(Top.at, To("write").at)
    BY <1>2 DEF Kin, CommandFam
  <2> QED
    BY <1>1, <1>2, <2>1, FamilyFits DEF WillFit, Suits
<1>4. Whole(stack', reader.asked, reader.phase, s'.last, Orderly)
  BY <1>3, StackUnder, Jumped DEF WillFit, Jump
<1>5. Pushes(stack', To("write"), Tail(stack)) /\ stack' # <<>> /\ Top' = To("write")
  BY <1>1, JumpIs
<1>6. Has(stack', Excursion) <=> Has(stack, Excursion)
  BY <1>2, <1>5, HasIs, TopFits DEF Excursion
<1>7. ~InFlight'
  BY <1>2, <1>5 DEF InFlight, Senders
<1>8. Flow'
  BY <1>7 DEF Flow, Quiet
<1>9. WriteOK' /\ GreetOK' /\ WaitOK' /\ AnswerOK'
  BY <1>2, <1>5, <1>7 DEF WriteOK, GreetOK, WaitOK, AnswerOK, At
<1>10. StackOK'
  BY <1>4, <1>6, Weaker DEF StackOK, Stacked, Orderly, Settled
<1>11. HandlingOK' /\ PhaseOK'
  BY <1>5, <1>6 DEF FInv, HandlingOK, PhaseOK, Settled
<1> QED
  BY <1>8, <1>9, <1>10, <1>11 DEF FInv, Settled

LEMMA KeepCommandProtected == FInv /\ CommandProtected => FInv'
<1> SUFFICES ASSUME FInv, CommandProtected
             PROVE  FInv'
  OBVIOUS
<1>1. stack # <<>> /\ Top.at = "protected" /\ ret \in -2..1 /\ IsFrame(Top)
      /\ Suits(Top, Tail(stack))
  BY TopFits DEF CommandProtected, At, FInv, Shapes, Suits, Fits
<1>2. Quiet /\ (srv.up => s.up)
  BY <1>1, QuietHere DEF InFlight, Senders
<1>3. Heavy(Top.cmd) => Bulky(Tail(stack), reader.asked)
  BY <1>1 DEF Suits, Fits, Holding, CommandFam
<1> DEFINE t == [s EXCEPT !.last = Top.cmd]
<1>4. \/ ret < 0 /\ Return(-2) /\ s' = s /\ Inside
      \/ /\ s.force /\ Top.cmd.verb \notin Setup
         /\ s' = [t EXCEPT !.force = FALSE] /\ Become(Plain("auth", NoCmd)) /\ Inside
      \/ s' = t /\ Return(IF Top.cmd.verb = "QUIT" THEN 0 ELSE -1) /\ Inside
      \/ /\ s' = [t EXCEPT !.cmdOk = TRUE] /\ srv' = [srv EXCEPT !.out = <<>>]
         /\ reader' = [reader EXCEPT !.body = FALSE]
         /\ Goto("write")
      \/ s.cmdOk /\ s' = t /\ Goto("write") /\ Inside
  BY DEF CommandProtected
<1>5. CASE ret < 0 /\ Return(-2) /\ s' = s /\ Inside
  <2>1. Settled /\ LastFits /\ Calm
    BY <1>1, <1>5, Idle DEF Return, Kept, InFlight, Senders
  <2> QED
    BY <1>1, <1>5, <2>1, Returned DEF Return, TimeoutFam, Excursion
<1>6. CASE /\ s.force /\ Top.cmd.verb \notin Setup
           /\ s' = [t EXCEPT !.force = FALSE] /\ Become(Plain("auth", NoCmd)) /\ Inside
  <2>1. /\ DOMAIN s' = DOMAIN s /\ s'.last = Top.cmd /\ s'.cmdOk = s.cmdOk /\ s'.up = s.up
        /\ s'.handling = s.handling /\ s'.allowTimeout = s.allowTimeout
    BY <1>6 DEF FInv, Shapes
  <2>2. Settled /\ LastFits /\ Calm
    BY <1>1, <1>2, <1>3, <1>6, <2>1, QuietIsCalm
       DEF Settled, LastFits, FInv, Shapes, Inside, World, Become
  <2> DEFINE f == Plain("auth", NoCmd)
  <2>3. IsFrame(f) /\ f.at = "auth"
    BY DEF Plain, Frame, IsFrame
  <2>4. stack' = <<f>> \o Tail(stack)
    BY <1>6 DEF Become, Jump
  <2> HIDE DEF f
  <2>5. WillFit(f, Tail(stack))
    <3>1. MatchAuth(Top.cmd, Tail(stack)[1])
      BY <1>1, <1>6 DEF MatchAuth, Setup, Suits, Fits, Callers, CommandFam, Senders,
                        Outer, AskFam, ConnectFam, QuitFam
    <3>2. NoGreeted(Tail(stack)) /\ Tail(stack) # <<>>
      BY <1>1 DEF Suits, Fits, Reading, Outer, AskFam, ConnectFam, QuitFam
    <3> QED
    BY <1>1, <2>1, <2>3, <3>1, <3>2
       DEF WillFit, Suits, Fits, Callers, CommandFam, TimeoutFam, AuthFam, Outer, AskFam,
           ConnectFam, QuitFam, Holding, Resenders, Excursion, AuthRest, Watching, Reading
  <2> QED
    BY <1>1, <2>2, <2>3, <2>4, <2>5, Moved DEF Excursion, Senders
<1>7. CASE s' = t /\ Return(IF Top.cmd.verb = "QUIT" THEN 0 ELSE -1) /\ Inside
  <2>1. /\ DOMAIN s' = DOMAIN s /\ s'.last = Top.cmd /\ s'.cmdOk = s.cmdOk /\ s'.up = s.up
        /\ s'.handling = s.handling /\ s'.allowTimeout = s.allowTimeout
    BY <1>7 DEF FInv, Shapes
  <2>2. Settled /\ LastFits /\ Calm
    BY <1>1, <1>2, <1>3, <1>7, <2>1, QuietIsCalm
       DEF Settled, LastFits, FInv, Shapes, Inside, World, Return
  <2> QED
    BY <1>1, <1>7, <2>2, Returned DEF Return, TimeoutFam, Excursion
<1>8. CASE /\ s' = [t EXCEPT !.cmdOk = TRUE] /\ srv' = [srv EXCEPT !.out = <<>>]
           /\ reader' = [reader EXCEPT !.body = FALSE] /\ Goto("write")
  <2>1. /\ DOMAIN s' = DOMAIN s /\ s'.last = Top.cmd /\ s'.up = s.up
        /\ s'.handling = s.handling /\ s'.allowTimeout = s.allowTimeout
    BY <1>8 DEF FInv, Shapes
  <2>2. DOMAIN srv' = DOMAIN srv /\ srv'.out = <<>> /\ srv'.up = srv.up
    BY <1>8 DEF FInv, Shapes
  <2>3. DOMAIN reader' = DOMAIN reader /\ reader'.asked = reader.asked
        /\ reader'.phase = reader.phase
    BY <1>8 DEF FInv, Shapes
  <2>4. ret' = ret /\ Jump(To("write"))
    BY <1>8 DEF Goto
  <2>5. Settled /\ LastFits
    BY <1>1, <1>3, <2>1, <2>2, <2>3, <2>4 DEF Settled, LastFits, FInv, Shapes
  <2> QED
    BY <1>1, <1>2, <2>1, <2>2, <2>4, <2>5, Writes DEF Leftover, Unread
<1>9. CASE s.cmdOk /\ s' = t /\ Goto("write") /\ Inside
  <2>1. /\ DOMAIN s' = DOMAIN s /\ s'.last = Top.cmd /\ s'.up = s.up
        /\ s'.handling = s.handling /\ s'.allowTimeout = s.allowTimeout
    BY <1>9 DEF FInv, Shapes
  <2>2. ret' = ret /\ Jump(To("write")) /\ UNCHANGED <<srv, reader>>
    BY <1>9 DEF Goto, Inside, World
  <2>3. Settled /\ LastFits
    BY <1>1, <1>3, <2>1, <2>2 DEF Settled, LastFits, FInv, Shapes
  <2>4. Leftover' /\ ~Unread'
    BY <1>2, <1>9, <2>2 DEF Quiet, Leftover, Unread
  <2> QED
    BY <1>1, <1>2, <2>1, <2>2, <2>3, <2>4, Writes
<1> QED
  BY <1>4, <1>5, <1>6, <1>7, <1>8, <1>9

LEMMA KeepCommandWrite == FInv /\ CommandWrite => FInv'
<1> SUFFICES ASSUME FInv, CommandWrite
             PROVE  FInv'
  OBVIOUS
<1>1. stack # <<>> /\ Top.at = "write" /\ ret \in -2..1 /\ IsFrame(Top)
      /\ Suits(Top, Tail(stack)) /\ At("write")
  BY TopFits DEF CommandWrite, At, FInv, Shapes, Suits, Fits
<1>2. Quiet /\ (srv.up => s.up) /\ s.last = Top.cmd /\ (srv.up => srv.out = <<>>)
  BY <1>1, QuietHere DEF InFlight, Senders, FInv, WriteOK, Unread
<1>3. s' = Sent /\ stack' = Tail(stack) /\ ret' = 1 /\ UNCHANGED <<reader, conf, host>>
  BY DEF CommandWrite, Return
<1>4. /\ DOMAIN s' = DOMAIN s /\ s'.last = s.last /\ s'.up = s.up
      /\ s'.handling = s.handling /\ s'.allowTimeout = s.allowTimeout
  BY <1>3 DEF Sent, FInv, Shapes
<1>5. DOMAIN srv' = DOMAIN srv /\ (srv'.up => srv.up) /\ Coming'
  <2>1. CASE UNCHANGED srv /\ ~srv.up
    BY <1>2, <2>1 DEF Coming, Quiet, Leftover
  <2>2. CASE /\ srv.up
             /\ srv' = [srv EXCEPT !.out = @ \o <<Reply(503, Top.cmd, srv.group, srv.art)>>]
    <3> DEFINE r == Reply(503, Top.cmd, srv.group, srv.art)
    <3>1. r.code = 503
      BY DEF Reply
    <3> HIDE DEF r
    <3>2. DOMAIN srv' = DOMAIN srv /\ srv'.up = srv.up /\ srv'.out = srv.out \o <<r>>
      BY <2>2 DEF FInv, Shapes, r
    <3>3. srv'.out = <<>> \o <<r>>
      BY <1>2, <2>2, <3>2
    <3>4. srv'.out = <<r>>
      BY <3>3
    <3>5. srv'.out = IF Manifold(r.code) THEN <<r, Data>> ELSE <<r>>
      BY <3>1, <3>4 DEF Manifold
    <3>6. r.code \notin {101, 215, 220}
      BY <3>1
    <3>7. Coming'
      BY <3>5, <3>6 DEF Coming
    <3> QED
      BY <2>2, <3>2, <3>7
  <2>3. ASSUME srv.up, NEW code \in Codes(Top.cmd), srv' = Served(Top.cmd, code)
        PROVE  DOMAIN srv' = DOMAIN srv /\ (srv'.up => srv.up) /\ Coming'
    <3>1. PICK g, a : /\ DOMAIN srv' = DOMAIN srv
                      /\ srv'.out = srv.out \o <<Reply(code, Top.cmd, g, a)>>
                                      \o (IF code \in {101, 215, 220} THEN <<Data>> ELSE <<>>)
      BY <2>3 DEF Served, FInv, Shapes
    <3> DEFINE r == Reply(code, Top.cmd, g, a)
    <3>2. r.code = code
      BY DEF Reply
    <3>3. srv'.out = <<>> \o <<r>> \o (IF Manifold(code) THEN <<Data>> ELSE <<>>)
      BY <1>2, <2>3, <3>1 DEF Manifold
    <3> HIDE DEF r
    <3>4. srv'.out = IF Manifold(r.code) THEN <<r, Data>> ELSE <<r>>
      BY <3>2, <3>3
    <3>5. /\ r.code \in {215, 220} => Heavy(s'.last)
          /\ r.code = 101 => Caps(s'.last)
      BY <1>2, <1>4, <2>3, <3>2, CodesAre
    <3>6. Coming'
      BY <3>4, <3>5 DEF Coming
    <3> QED
      BY <2>3, <3>1, <3>6
  <2> QED
    BY <2>1, <2>2, <2>3 DEF CommandWrite
<1>6. Shapes'
  BY <1>3, <1>4, <1>5 DEF FInv, Shapes
<1>7. Has(stack', Excursion) <=> Has(stack, Excursion)
  BY <1>1, <1>3, TopFits DEF Excursion
<1>8. Orderly' <=> Orderly
  BY <1>4, <1>7 DEF Orderly
<1>9. Whole(stack', reader.asked, reader.phase, s'.last, Orderly')
  <2>1. Whole(stack', reader.asked, reader.phase, s'.last, Orderly)
    BY <1>1, <1>3, <1>4, StackUnder, Popped DEF LastFits
  <2> QED
    BY <1>8, <2>1, Weaker
<1>10. /\ Heavy(s'.last) => Bulky(Tail(stack), reader.asked)
       /\ Caps(s'.last) /\ Orderly' => CapsAt(Tail(stack), 1)
  BY <1>1, <1>2, <1>4, <1>8 DEF Suits, Fits, Holding, CommandFam
<1>11. Tail(stack)[1].at \notin {"authorised", "timedOut"}
  BY <1>1 DEF Suits, Fits, Outer, AskFam, ConnectFam, QuitFam, Callers, CommandFam, Senders
<1>12. Has(stack', Excursion) => s'.handling
  BY <1>4, <1>7 DEF FInv, HandlingOK
<1> QED
  BY <1>1, <1>2, <1>3, <1>4, <1>5, <1>6, <1>8, <1>9, <1>10, <1>11, <1>12, Hands
     DEF CommandFam

LEMMA KeepCommandWriteFails == FInv /\ CommandWriteFails => FInv'
<1> SUFFICES ASSUME FInv, CommandWriteFails
             PROVE  FInv'
  OBVIOUS
<1>1. stack # <<>> /\ Top.at = "write" /\ ret \in -2..1 /\ IsFrame(Top)
      /\ Suits(Top, Tail(stack)) /\ At("write")
  BY TopFits DEF CommandWriteFails, At, FInv, Shapes, Suits, Fits
<1>2. s' = s /\ ret' = ret /\ Inside /\ Jump(Plain("timeout", NoCmd))
  BY DEF CommandWriteFails, Become
<1>3. Settled /\ LastFits /\ Calm
  BY <1>1, <1>2, Idle DEF Kept, InFlight, Senders
<1>4. s'.last = Top.cmd
  BY <1>1, <1>2 DEF FInv, WriteOK
<1> DEFINE f == Plain("timeout", NoCmd)
<1>5. IsFrame(f) /\ f.at = "timeout"
  BY DEF Plain, Frame, IsFrame
<1>6. stack' = <<f>> \o Tail(stack)
  BY <1>2 DEF Jump
<1> HIDE DEF f
<1>7. NoGreeted(Tail(stack))
  BY <1>1 DEF Suits, Fits, Reading
<1>8. WillFit(f, Tail(stack))
  BY <1>1, <1>4, <1>5, <1>7
     DEF WillFit, Suits, Fits, Callers, CommandFam, TimeoutFam, Outer, AskFam,
         ConnectFam, QuitFam, Holding, Resenders, Excursion, AuthRest, Watching, Reading
<1> QED
  BY <1>1, <1>3, <1>5, <1>6, <1>7, <1>8, Moved DEF Excursion, Senders

-------------------------------------------------------------------------------
\* A timeout is handled over the greeting only if one is being handled already.
LEMMA TimeoutIs ==
  ASSUME FInv, stack # <<>>, Top.at = "timeout"
  PROVE  /\ Tail(stack) # <<>> /\ stack[2] = Tail(stack)[1]
         /\ Tail(stack)[1].at \in Senders \cup {"timedOut"}
         /\ \/ NoGreeted(Tail(stack))
            \/ /\ Tail(stack)[1].at = "timedOut"
               /\ Len(stack) >= 3 /\ stack[3].at = "greeted"
<1> DEFINE lo == Tail(stack)
<1>1. Suits(Top, lo) /\ IsSeq(lo) /\ Pushes(stack, Top, lo)
  BY TopFits
<1>2. lo # <<>> /\ stack[2] = lo[1] /\ lo[1].at \in Senders \cup {"timedOut"}
  BY <1>1, TopFits DEF Suits, Fits, Outer, AskFam, ConnectFam, QuitFam, Callers,
                       CommandFam, TimeoutFam
<1>3. Suits(lo[1], Tail(lo)) /\ (NoGreeted(lo) <=> lo[1].at # "greeted" /\ NoGreeted(Tail(lo)))
  BY <1>2, Second DEF NoGreeted
<1>4. CASE lo[1].at \in Senders
  BY <1>2, <1>3, <1>4 DEF Suits, Fits, Senders, Reading
<1>5. CASE lo[1].at = "timedOut"
  <2>1. Tail(lo) # <<>>
    BY <1>3, <1>5 DEF Suits, Fits, Outer, AskFam, ConnectFam, QuitFam
  <2>2. Len(stack) >= 3 /\ stack[3].at \in Callers("timedOut")
    BY <1>2, <1>5, <2>1, Second
  <2>3. stack[3].at \in {"answered", "capsAnswered", "greeted", "readerAnswered"}
    BY <2>2, CheckersAre DEF CheckFam
  <2>4. ASSUME stack[3].at # "greeted"
        PROVE  NoGreeted(lo)
    <3>1. Len(stack) \in Nat /\ Fit(stack, 3, reader.asked, reader.phase, s.last, Orderly)
      BY <2>2 DEF FInv, StackOK, Stacked, Whole, IsSeq
    <3>2. Greetless(stack, 3)
      BY <2>3, <2>4, <3>1 DEF Fit, Reading
    <3>3. ASSUME NEW i \in 1..Len(lo), lo[i].at = "greeted"
          PROVE  FALSE
      <4>1. stack[i+1] = lo[i] /\ i + 1 \in 1..Len(stack)
        BY <1>1 DEF Pushes
      <4>2. i # 1
        BY <1>5, <3>3
      <4>3. i # 2
        BY <2>4, <3>3, <4>1
      <4>4. i + 1 \in (3+1)..Len(stack)
        BY <3>1, <4>1, <4>2, <4>3
      <4> QED
        BY <3>2, <3>3, <4>1, <4>4 DEF Greetless, NoneBelow
    <3> QED
      BY <3>3 DEF NoGreeted, Has
  <2> QED
    BY <1>2, <1>5, <2>2, <2>4
<1> QED
  BY <1>2, <1>4, <1>5

LEMMA WaitAt ==
  ASSUME NEW st, CapsAt(st, 1), st[1].at = "timedOut"
  PROVE  Len(st) > 1 /\ st[2].at = "capsAnswered"
  BY DEF CapsAt

\* handling_timeout stays set when it fails: the session is not in order then.
LEMMA TimeoutReturns ==
  ASSUME FInv, stack # <<>>, Top.at \in TimeoutFam, s' = s, stack' = Tail(stack),
         Inside, ret' \in -2..1, ret' # 1, ~InFlight
  PROVE  FInv'
<1> DEFINE lo == Tail(stack)
<1>1. Settled /\ LastFits /\ Calm
  BY Idle DEF Kept, TimeoutFam, Excursion
<1>2. Suits(Top, lo) /\ IsSeq(lo)
  BY TopFits
<1>3. lo # <<>> /\ stack[2] = lo[1] /\ lo[1].at \in Senders \cup {"timedOut"}
      /\ Len(stack) >= 2
  BY <1>2, TopFits DEF Suits, Fits, Outer, AskFam, ConnectFam, QuitFam, Callers,
                       CommandFam, TimeoutFam, Excursion
<1>4. Whole(stack', reader.asked, reader.phase, s'.last, Orderly)
  BY <1>1, StackUnder, Popped
<1>5. stack' # <<>> /\ Top' = lo[1]
  BY <1>3, TopFits, TailIs DEF Top
<1>6. Orderly' => Orderly /\ Top.at = "timeout"
  <2>1. Has(stack, Excursion) <=> Top.at \in Excursion \/ Has(stack', Excursion)
    BY TopFits
  <2>2. Top.at \in Excursion => ~Has(stack', Excursion) /\ s.handling
    BY <1>2, <2>1 DEF Suits, Fits, FInv, HandlingOK
  <2> QED
    BY <2>1, <2>2 DEF Orderly, TimeoutFam
<1>7. StackOK'
  BY <1>1, <1>4, <1>6, Weaker DEF StackOK, Stacked, Settled
<1>8. ~InFlight'
  BY <1>3, <1>5 DEF InFlight, Senders
<1>9. Flow'
  <2>1. Has(stack', {"timedOut"}) => Has(stack, {"timedOut"})
    BY TopFits
  <2> QED
    BY <1>1, <1>8, <2>1 DEF Calm, Flow, Quiet
<1>10. Len(stack') >= 2 => stack'[2] = Tail(lo)[1] /\ Tail(lo) # <<>>
  <2>1. Pushes(lo, lo[1], Tail(lo))
    BY <1>3, Second
  <2>2. stack' = lo
    OBVIOUS
  <2> HIDE DEF lo
  <2>3. Len(lo) >= 2 => lo[2] = Tail(lo)[1] /\ Tail(lo) # <<>>
    BY <2>1, TopIs
  <2> QED
    BY <2>2, <2>3
<1>11. ASSUME Top'.at = "timedOut"
       PROVE  /\ Tail(lo) # <<>> /\ Len(stack) >= 3 /\ stack[3] = Tail(lo)[1]
              /\ stack'[2] = Tail(lo)[1] /\ Len(stack') >= 2
  <2>1. Suits(lo[1], Tail(lo)) /\ Pushes(lo, lo[1], Tail(lo)) /\ IsSeq(Tail(lo))
    BY <1>3, Second
  <2>2. Tail(lo) # <<>>
    BY <1>5, <1>11, <2>1 DEF Suits, Fits, Outer, AskFam, ConnectFam, QuitFam
  <2>3. Len(lo) >= 2
    BY <2>1, <2>2, TailIs DEF Pushes
  <2> QED
    BY <1>3, <1>10, <2>2, <2>3, Second
<1>12. GreetOK'
  <2>1. ASSUME Top'.at = "timedOut", stack'[2].at = "greeted"
        PROVE  s.ser.code = 503
    <3>1. Top.at \notin Excursion
      <4>1. SUFFICES ASSUME NoGreeted(lo) PROVE FALSE
        BY <1>2 DEF Suits, Fits, Excursion, Reading
      <4>2. 2 \in 1..Len(stack')
        BY <1>2, <1>11, <2>1 DEF IsSeq
      <4>3. Has(stack', {"greeted"})
        BY <2>1, <4>2 DEF Has
      <4> QED
        BY <4>1, <4>3 DEF NoGreeted
    <3>2. Top.at = "timeout" /\ Len(stack) >= 3 /\ stack[3].at = "greeted"
      BY <1>11, <2>1, <3>1 DEF TimeoutFam
    <3> QED
      BY <3>2 DEF FInv, GreetOK
  <2> QED
    BY <1>3, <1>5, <2>1 DEF GreetOK, Senders
<1>13. WaitOK'
  <2> SUFFICES ASSUME Top'.at = "timedOut", Caps(s.last), Orderly'
               PROVE  stack'[2].at \in {"capsAnswered", "greeted"}
    BY DEF WaitOK, At
  <2>1. Top.at = "timeout" /\ Orderly /\ lo[1].at = "timedOut"
    BY <1>5, <1>6
  <2>2. CASE NoGreeted(lo)
    <3>1. CapsAt(lo, 1)
      BY <1>2, <2>1, <2>2 DEF Suits, Fits
    <3>2. CapsAt(stack', 1) /\ stack'[1].at = "timedOut"
      BY <2>1, <3>1
    <3> QED
      BY <3>2, WaitAt
  <2>3. CASE ~NoGreeted(lo)
    BY <1>11, <2>1, <2>3, TimeoutIs
  <2> QED
    BY <2>2, <2>3
<1>14. WriteOK' /\ AnswerOK'
  BY <1>3, <1>5, <1>8 DEF WriteOK, AnswerOK, At, Senders
<1>15. HandlingOK' /\ PhaseOK'
  <2>1. Has(stack', Excursion) => Has(stack, Excursion)
    BY TopFits
  <2> QED
    BY <1>1, <2>1 DEF FInv, HandlingOK, PhaseOK, Settled
<1> QED
  BY <1>1, <1>7, <1>9, <1>12, <1>13, <1>14, <1>15 DEF FInv, Settled

LEMMA TimeoutStarts ==
  ASSUME FInv, At("timeout"), ~s.handling,
         Call([To("reconnected") EXCEPT !.cmd = s.last], Plain("connect", NoCmd)),
         Close([s EXCEPT !.handling = TRUE])
  PROVE  FInv'
<1> DEFINE t == [To("reconnected") EXCEPT !.cmd = s.last]
           c == Plain("connect", NoCmd)
           u == [s EXCEPT !.handling = TRUE]
<1>1. stack # <<>> /\ Top.at = "timeout" /\ ret \in -2..1 /\ IsFrame(Top)
      /\ Suits(Top, Tail(stack)) /\ IsSeq(Tail(stack))
  BY TopFits DEF At, FInv, Shapes, Suits, Fits
<1>2. IsFrame(t) /\ t.at = "reconnected" /\ t.cmd = s.last
  BY <1>1 DEF IsFrame, To
<1>3. IsFrame(c) /\ c.at = "connect"
  BY DEF Plain, Frame, IsFrame
<1>4. /\ DOMAIN u = DOMAIN s /\ u.last = s.last /\ u.handling = TRUE
      /\ u.allowTimeout = s.allowTimeout
  BY DEF FInv, Shapes
<1>5. /\ Call(t, c) /\ stack' = <<c, t>> \o Tail(stack) /\ ret' = ret
      /\ s' = Closed(u) /\ srv' = NoServer /\ UNCHANGED World
  BY DEF Call, Close
<1> HIDE DEF t, c, u
<1>6. /\ DOMAIN s' = DOMAIN s /\ s'.last = s.last /\ s'.handling = TRUE
      /\ s'.allowTimeout = s.allowTimeout
  BY <1>4, <1>5, ClosedIs
<1>7. ~Has(stack, Excursion) /\ Orderly
  BY DEF FInv, HandlingOK, Orderly
<1>8. /\ NoGreeted(Tail(stack)) /\ Tail(stack) # <<>>
      /\ Tail(stack)[1].at \in Senders \cup {"timedOut"}
  BY <1>1, TimeoutIs DEF FInv, GreetOK
<1>9. WillFit(t, Tail(stack))
  <2>1. ~Has(Tail(stack), Excursion)
    BY <1>1, <1>7, TopFits
  <2>2. t.at \in TimeoutFam /\ "timeout" \in TimeoutFam
    BY <1>2 DEF TimeoutFam, Excursion
  <2> QED
  BY <1>1, <1>2, <1>6, <1>7, <1>8, <2>1, <2>2
     DEF WillFit, Suits, Fits, Holding, Watching, Reading, CommandFam, AskFam,
         Resenders, Excursion, AuthRest, Callers
<1>10. WillFit(c, <<t>> \o Tail(stack))
  <2>1. t.at \in Callers("connect")
    BY <1>2 DEF Callers, CommandFam, TimeoutFam, Excursion, AuthFam, AuthRest, CheckFam,
                AskFam, RefreshFam, TlsFam, ConnectFam
  <2>2. t.at # "greeted"
    BY <1>2
  <2> QED
    BY <1>1, <1>8, <2>1, <2>2, CalleeFits DEF WillFit, c
<1>11. Whole(stack', reader.asked, reader.phase, s'.last, Orderly)
  BY <1>1, <1>5, <1>6, <1>9, <1>10, StackUnder, Called DEF WillFit, LastFits
<1>12. /\ Pushes(stack', c, <<t>> \o Tail(stack)) /\ stack' # <<>> /\ Top' = c
       /\ Pushes(<<t>> \o Tail(stack), t, Tail(stack))
       /\ Len(stack') >= 2 => stack'[2] = t
  BY <1>1, <1>5, CallIs
<1>13. Has(stack', Excursion)
  <2>1. "reconnected" \in Excursion
    BY DEF Excursion
  <2> QED
    BY <1>2, <1>12, <2>1, HasIs
<1>14. ~InFlight'
  BY <1>3, <1>12 DEF InFlight, Senders
<1>15. Flow'
  BY <1>5, <1>14 DEF Flow, Quiet, Leftover, Unread, NoServer
<1>16. WriteOK' /\ GreetOK' /\ WaitOK' /\ AnswerOK'
  BY <1>2, <1>3, <1>12, <1>14 DEF WriteOK, GreetOK, WaitOK, AnswerOK, At
<1>17. StackOK'
  BY <1>5, <1>7, <1>11, Weaker DEF StackOK, Stacked, World
<1>18. HandlingOK' /\ PhaseOK'
  BY <1>1, <1>5, <1>6 DEF FInv, HandlingOK, PhaseOK, World
<1>19. Shapes'
  BY <1>1, <1>5, <1>6 DEF FInv, Shapes, World, NoServer
<1> QED
  BY <1>15, <1>16, <1>17, <1>18, <1>19 DEF FInv

LEMMA KeepTimeout == FInv /\ Timeout => FInv'
<1> SUFFICES ASSUME FInv, Timeout
             PROVE  FInv'
  OBVIOUS
<1>1. stack # <<>> /\ Top.at = "timeout"
  BY DEF Timeout, At
<1>2. CASE s.last.verb = "QUIT" \/ s.handling
  <2>1. s' = s /\ stack' = Tail(stack) /\ Inside /\ ret' \in {0, -1}
    BY <1>2 DEF Timeout, Return
  <2>2. ret' \in -2..1 /\ ret' # 1
    BY <2>1
  <2>3. ~InFlight
    BY <1>1 DEF InFlight, Senders
  <2> QED
    BY <1>1, <2>1, <2>2, <2>3, TimeoutReturns DEF TimeoutFam
<1>3. CASE ~(s.last.verb = "QUIT" \/ s.handling)
  BY <1>3, TimeoutStarts DEF Timeout
<1> QED
  BY <1>2, <1>3

LEMMA KeepTimeoutReconnected == FInv /\ TimeoutReconnected => FInv'
<1> SUFFICES ASSUME FInv, TimeoutReconnected
             PROVE  FInv'
  OBVIOUS
<1>1. stack # <<>> /\ Top.at = "reconnected" /\ ret \in -2..1 /\ IsFrame(Top)
      /\ Suits(Top, Tail(stack)) /\ ~InFlight
  BY TopFits DEF TimeoutReconnected, At, FInv, Shapes, Suits, Fits, InFlight, Senders
<1>2. s' = s /\ Inside
  BY DEF TimeoutReconnected
<1>3. CASE ret <= 0
  <2>1. stack' = Tail(stack) /\ ret' = -2
    BY <1>3 DEF TimeoutReconnected, Return
  <2> QED
    BY <1>1, <1>2, <2>1, TimeoutReturns DEF TimeoutFam, Excursion
<1>4. CASE ~(ret <= 0)
  <2>1. Settled /\ LastFits /\ Calm
    BY <1>1, <1>2, <1>4, Idle DEF TimeoutReconnected, CallFrom, Call, Kept
  <2>2. CASE reader.inNg
    <3>1. Call(To("regrouped"), Plain("ask", Cmd("GROUP", reader.group)))
      BY <1>4, <2>2 DEF TimeoutReconnected, CallFrom
    <3> QED
      BY <1>1, <2>1, <3>1, ToIs, CallsOn
         DEF Kin, Callers, CommandFam, TimeoutFam, Excursion, AuthFam, AuthRest, CheckFam,
             AskFam, Cmd, Heavy, Caps
  <2>3. CASE ~reader.inNg
    <3>1. Call(To("repeated"), Plain("command", Top.cmd))
      BY <1>4, <2>3 DEF TimeoutReconnected, CallFrom
    <3> QED
      BY <1>1, <1>2, <2>1, <3>1, ToIs, Sends
         DEF Kin, Excursion, Senders, Carriers, Holding, Resenders
  <2> QED
    BY <2>2, <2>3
<1> QED
  BY <1>3, <1>4

LEMMA KeepTimeoutRegrouped == FInv /\ TimeoutRegrouped => FInv'
<1> SUFFICES ASSUME FInv, TimeoutRegrouped
             PROVE  FInv'
  OBVIOUS
<1>1. stack # <<>> /\ Top.at = "regrouped" /\ ret \in -2..1 /\ IsFrame(Top)
      /\ Suits(Top, Tail(stack)) /\ ~InFlight
  BY TopFits DEF TimeoutRegrouped, At, FInv, Shapes, Suits, Fits, InFlight, Senders
<1>2. s' = s /\ Inside
  BY DEF TimeoutRegrouped
<1>3. CASE ret <= 0
  <2>1. stack' = Tail(stack) /\ ret' = -2
    BY <1>3 DEF TimeoutRegrouped, Return
  <2> QED
    BY <1>1, <1>2, <2>1, TimeoutReturns DEF TimeoutFam, Excursion
<1>4. CASE ~(ret <= 0)
  <2>1. Settled /\ LastFits /\ Calm
    BY <1>1, <1>2, <1>4, Idle DEF TimeoutRegrouped, CallFrom, Call, Kept
  <2>2. Call(To("repeated"), Plain("command", Top.cmd))
    BY <1>4 DEF TimeoutRegrouped, CallFrom
  <2> QED
    BY <1>1, <1>2, <2>1, <2>2, ToIs, Sends
       DEF Kin, Excursion, Senders, Carriers, Holding, Resenders
<1> QED
  BY <1>3, <1>4

LEMMA KeepTimeoutRepeated == FInv /\ TimeoutRepeated => FInv'
<1> SUFFICES ASSUME FInv, TimeoutRepeated
             PROVE  FInv'
  OBVIOUS
<1>1. stack # <<>> /\ Top.at = "repeated" /\ ret \in -2..1 /\ IsFrame(Top)
      /\ Suits(Top, Tail(stack))
  BY TopFits DEF TimeoutRepeated, At, FInv, Shapes, Suits, Fits
<1>2. stack' = Tail(stack) /\ Inside
  BY DEF TimeoutRepeated, Return
<1>3. CASE ret <= 0
  <2>1. s' = s /\ ret' = -1 /\ ~InFlight
    BY <1>1, <1>3 DEF TimeoutRepeated, Return, InFlight
  <2> QED
    BY <1>1, <1>2, <2>1, TimeoutReturns DEF TimeoutFam, Excursion
<1>4. CASE ~(ret <= 0)
  <2>1. ret = 1 /\ InFlight
    BY <1>1, <1>4 DEF InFlight, Senders
  <2>2. ret' = 1 /\ s' = [s EXCEPT !.last = Top.cmd, !.handling = FALSE]
    BY <1>4 DEF TimeoutRepeated, Return
  <2>3. /\ DOMAIN s' = DOMAIN s /\ s'.last = Top.cmd /\ s'.handling = FALSE
        /\ s'.allowTimeout = s.allowTimeout /\ s'.up = s.up
    BY <2>2 DEF FInv, Shapes
  <2>4. Orderly /\ Orderly'
    <3>1. Has(stack, Excursion)
      BY <1>1, TopFits DEF Excursion
    <3> QED
      BY <2>3, <3>1 DEF Orderly
  <2>5. ~Has(stack', Excursion)
    BY <1>1, <1>2 DEF Suits, Fits, Excursion
  <2>6. /\ Heavy(s.last) => Heavy(Top.cmd)
        /\ Caps(s.last) => Caps(Top.cmd)
    <3>1. /\ Heavy(s.last) => AllCarry(stack)
          /\ Caps(s.last) => CapsAt(stack, 1)
      BY <1>1, <2>1, <2>4 DEF FInv, AnswerOK
    <3> QED
      BY <1>1, <3>1, TopFits DEF Carries, CapsAt, Holding, Resenders, Excursion
  <2>7. Coming' /\ (srv'.up => s'.up)
    <3>1. Coming /\ (srv.up => s.up)
      BY <2>1 DEF FInv, Flow
    <3>2. srv' = srv
      BY <1>2 DEF Inside
    <3>3. \A r : /\ (r.code \in {215, 220} => Heavy(s.last))
                      => (r.code \in {215, 220} => Heavy(s'.last))
                 /\ (r.code = 101 => Caps(s.last)) => (r.code = 101 => Caps(s'.last))
      BY <2>3, <2>6
    <3>4. CASE ~srv.up /\ Leftover
      BY <3>2, <3>4 DEF Coming, Leftover
    <3>5. ASSUME NEW r, srv.out = IF Manifold(r.code) THEN <<r, Data>> ELSE <<r>>,
                 r.code \in {215, 220} => Heavy(s.last), r.code = 101 => Caps(s.last)
          PROVE  Coming'
      <4>1. /\ r.code \in {215, 220} => Heavy(s'.last)
            /\ r.code = 101 => Caps(s'.last)
        BY <3>3, <3>5
      <4>2. srv'.out = IF Manifold(r.code) THEN <<r, Data>> ELSE <<r>>
        BY <3>2, <3>5
      <4> QED
        BY <4>1, <4>2 DEF Coming
    <3>6. Coming'
      BY <3>1, <3>4, <3>5 DEF Coming
    <3> QED
      BY <2>3, <3>1, <3>2, <3>6
  <2>8. Heavy(Top.cmd) => Bulky(Tail(stack), reader.asked)
    BY <1>1 DEF Suits, Fits, Holding, Resenders, Excursion
  <2>9. Whole(stack', reader.asked, reader.phase, s'.last, Orderly')
    <3>1. Whole(stack', reader.asked, reader.phase, s'.last, Orderly)
      BY <1>1, <1>2, <2>3, <2>8, StackUnder, Popped DEF LastFits
    <3> QED
      BY <2>4, <3>1, Weaker
  <2>10. Caps(Top.cmd) => CapsAt(Tail(stack), 1)
    BY <1>1, <2>4 DEF Suits, Fits, Resenders, Excursion
  <2>11. /\ Tail(stack)[1].at # "authorised"
         /\ Tail(stack)[1].at = "timedOut" => NoGreeted(Tail(stack))
    BY <1>1 DEF Suits, Fits, Reading, Outer, AskFam, ConnectFam, QuitFam, Callers,
                CommandFam, TimeoutFam, Excursion, Senders
  <2>12. Shapes'
    BY <1>2, <2>2, <2>3 DEF FInv, Shapes, Inside, World
  <2> QED
    BY <1>1, <1>2, <2>2, <2>3, <2>4, <2>5, <2>7, <2>8, <2>9, <2>10, <2>11, <2>12, Hands
       DEF Inside, World, TimeoutFam, Excursion
<1> QED
  BY <1>3, <1>4

LEMMA KeepGreeted == FInv /\ Greeted => FInv'
<1> SUFFICES ASSUME FInv, Greeted
             PROVE  FInv'
  OBVIOUS
<1>1. stack # <<>> /\ Top.at = "greeted" /\ ret \in -2..1 /\ IsFrame(Top)
      /\ Suits(Top, Tail(stack))
  BY TopFits DEF Greeted, At, FInv, Shapes, Suits, Fits
<1>2. Settled /\ LastFits /\ Calm /\ s'.last = s.last
  <2>1. s' = s
    BY <1>1 DEF Greeted, Call
  <2>2. Kept /\ s'.cmdOk = s.cmdOk /\ s'.up = s.up
    BY <2>1 DEF Kept, FInv, Shapes
  <2>3. ret' \in -2..1 /\ Inside
    BY <1>1 DEF Greeted, Call, Return, Jump, Pass, CallFrom, Call, Welcome
  <2> QED
    BY <1>1, <2>2, <2>3, Idle DEF InFlight, Senders, Kept
<1>3. ASSUME NEW note, Call([To("discovered") EXCEPT !.note = note], Plain("refresh", NoCmd))
      PROVE  FInv'
  <2> DEFINE t == [To("discovered") EXCEPT !.note = note]
  <2>1. IsFrame(t) /\ t.at = "discovered" /\ t.cmd = Top.cmd
    BY <1>1, NoteIs
  <2>2. Call(t, Plain("refresh", NoCmd))
    BY <1>3
  <2> HIDE DEF t
  <2> QED
    BY <1>1, <1>2, <1>3, <2>1, <2>2, CallsOn
       DEF Kin, Callers, CommandFam, TimeoutFam, Excursion, AuthFam, AuthRest, CheckFam,
           AskFam,
           RefreshFam, TlsFam, ConnectFam
<1>4. ASSUME stack' = Tail(stack)
      PROVE  FInv'
  BY <1>1, <1>2, <1>4, Returned DEF TimeoutFam, Excursion, CommandFam, AuthFam, AuthRest
<1>5. \/ Call([To("discovered") EXCEPT !.note = s.ser], Plain("refresh", NoCmd))
      \/ stack' = Tail(stack)
  BY DEF Greeted, Call, Return, Pass, CallFrom
<1> QED
  BY <1>3, <1>4, <1>5

LEMMA KeepDiscovered == FInv /\ Discovered => FInv'
<1> SUFFICES ASSUME FInv, Discovered
             PROVE  FInv'
  OBVIOUS
<1>1. stack # <<>> /\ Top.at = "discovered" /\ ret \in -2..1 /\ IsFrame(Top)
      /\ Suits(Top, Tail(stack))
  BY TopFits DEF Discovered, At, FInv, Shapes, Suits, Fits
<1>2. CASE ConnectFails
  <2>1. s' = Closed(s) /\ srv' = NoServer /\ UNCHANGED World /\ ret' = 0
        /\ stack' = Tail(stack)
    BY <1>2 DEF Discovered, ConnectFails, Return, Close
  <2>2. Kept
    BY <2>1, ClosedIs DEF Kept, FInv, Shapes
  <2>3. Settled /\ LastFits /\ Calm
    BY <2>1, <2>2, Closing
  <2> QED
    BY <1>1, <2>1, <2>3, Returned DEF TimeoutFam, Excursion, CommandFam, AuthFam, AuthRest
<1>3. ASSUME ~ConnectFails
      PROVE  Settled /\ LastFits /\ Calm /\ s'.last = s.last
  <2>1. s' = s \/ s' = [s EXCEPT !.ser = Top.note]
    BY <1>3, <1>1 DEF Discovered, Settle
  <2>2. Kept /\ s'.cmdOk = s.cmdOk /\ s'.up = s.up
    BY <2>1 DEF Kept, FInv, Shapes
  <2>3. ret' \in -2..1 /\ Inside
    BY <1>3, <1>1 DEF Discovered, Settle, Return, Jump, Pass, CallFrom, Call, Welcome
  <2> QED
    BY <1>1, <2>2, <2>3, Idle DEF InFlight, Senders, Kept
<1>4. ASSUME stack' = Tail(stack), ~ConnectFails
      PROVE  FInv'
  BY <1>1, <1>3, <1>4, Returned DEF TimeoutFam, Excursion, CommandFam, AuthFam, AuthRest
<1>5. ASSUME Call(To("secured"), Plain("startTls", NoCmd)), ~ConnectFails
      PROVE  FInv'
  BY <1>1, <1>3, <1>5, ToIs, CallsOn
     DEF Kin, Callers, CommandFam, TimeoutFam, Excursion, AuthFam, AuthRest, CheckFam,
         AskFam,
           RefreshFam, TlsFam, ConnectFam, QuitFam, Holding, Resenders, Cmd, Heavy, Caps
<1>6. ASSUME Jump(To("secured")), ~ConnectFails
      PROVE  FInv'
  BY <1>1, <1>3, <1>6, ToIs, MovesOn DEF Kin, ConnectFam, Senders
<1>7. \/ ConnectFails
      \/ stack' = Tail(stack)
      \/ Call(To("secured"), Plain("startTls", NoCmd))
      \/ Jump(To("secured"))
  BY DEF Discovered, Settle, Return, Pass, CallFrom
<1> QED
  BY <1>2, <1>4, <1>5, <1>6, <1>7

LEMMA KeepSecured == FInv /\ Secured => FInv'
<1> SUFFICES ASSUME FInv, Secured
             PROVE  FInv'
  OBVIOUS
<1>1. stack # <<>> /\ Top.at = "secured" /\ ret \in -2..1 /\ IsFrame(Top)
      /\ Suits(Top, Tail(stack))
  BY TopFits DEF Secured, At, FInv, Shapes, Suits, Fits
<1>2. Settled /\ LastFits /\ Calm /\ s'.last = s.last
  <2>1. s' = s \/ s' = [s EXCEPT !.ser = Top.note]
    BY <1>1 DEF Secured, Settle
  <2>2. Kept /\ s'.cmdOk = s.cmdOk /\ s'.up = s.up
    BY <2>1 DEF Kept, FInv, Shapes
  <2>3. ret' \in -2..1 /\ Inside
    BY <1>1 DEF Secured, Settle, Return, Jump, Pass, CallFrom, Call, Welcome
  <2> QED
    BY <1>1, <2>2, <2>3, Idle DEF InFlight, Senders, Kept
<1>3. ASSUME stack' = Tail(stack)
      PROVE  FInv'
  BY <1>1, <1>2, <1>3, Returned DEF TimeoutFam, Excursion, CommandFam, AuthFam, AuthRest
<1>4. ASSUME Call(To("readerAsked"), Plain("command", Cmd("MODE_READER", 0)))
      PROVE  FInv'
  BY <1>1, <1>2, <1>4, ToIs, Sends DEF Kin, ConnectFam, Senders, Cmd, Heavy, Caps
<1>5. \/ stack' = Tail(stack)
      \/ Call(To("readerAsked"), Plain("command", Cmd("MODE_READER", 0)))
  BY DEF Secured, Settle, Return, Pass, CallFrom
<1> QED
  BY <1>3, <1>4, <1>5

LEMMA KeepReaderAnswered == FInv /\ ReaderAnswered => FInv'
<1> SUFFICES ASSUME FInv, ReaderAnswered
             PROVE  FInv'
  OBVIOUS
<1>1. stack # <<>> /\ Top.at = "readerAnswered" /\ ret \in -2..1 /\ IsFrame(Top)
      /\ Suits(Top, Tail(stack))
  BY TopFits DEF ReaderAnswered, At, FInv, Shapes, Suits, Fits
<1>2. Settled /\ LastFits /\ Calm /\ s'.last = s.last
  <2>1. s' = s \/ s' = [s EXCEPT !.ser = Top.note]
    BY <1>1 DEF ReaderAnswered, Settle
  <2>2. Kept /\ s'.cmdOk = s.cmdOk /\ s'.up = s.up
    BY <2>1 DEF Kept, FInv, Shapes
  <2>3. ret' \in -2..1 /\ Inside
    BY <1>1 DEF ReaderAnswered, Settle, Return, Jump, Pass, CallFrom, Call, Welcome
  <2> QED
    BY <1>1, <2>2, <2>3, Idle DEF InFlight, Senders, Kept
<1>3. ASSUME stack' = Tail(stack)
      PROVE  FInv'
  BY <1>1, <1>2, <1>3, Returned DEF TimeoutFam, Excursion, CommandFam, AuthFam, AuthRest
<1>4. ASSUME NEW note, Call([To("rediscovered") EXCEPT !.note = note], Plain("refresh", NoCmd))
      PROVE  FInv'
  <2> DEFINE t == [To("rediscovered") EXCEPT !.note = note]
  <2>1. IsFrame(t) /\ t.at = "rediscovered" /\ t.cmd = Top.cmd
    BY <1>1, NoteIs
  <2>2. Call(t, Plain("refresh", NoCmd))
    BY <1>4
  <2> HIDE DEF t
  <2> QED
    BY <1>1, <1>2, <1>4, <2>1, <2>2, CallsOn
       DEF Kin, Callers, CommandFam, TimeoutFam, Excursion, AuthFam, AuthRest, CheckFam,
           AskFam,
           RefreshFam, TlsFam, ConnectFam
<1>5. \/ stack' = Tail(stack)
      \/ Call([To("rediscovered") EXCEPT !.note = s.ser], Plain("refresh", NoCmd))
  BY DEF ReaderAnswered, Settle, Return, Pass, CallFrom
<1> QED
  BY <1>3, <1>4, <1>5

LEMMA KeepRediscovered == FInv /\ Rediscovered => FInv'
<1> SUFFICES ASSUME FInv, Rediscovered
             PROVE  FInv'
  OBVIOUS
<1>1. stack # <<>> /\ Top.at = "rediscovered" /\ ret \in -2..1 /\ IsFrame(Top)
      /\ Suits(Top, Tail(stack))
  BY TopFits DEF Rediscovered, At, FInv, Shapes, Suits, Fits
<1>2. CASE ConnectFails
  <2>1. s' = Closed(s) /\ srv' = NoServer /\ UNCHANGED World /\ ret' = 0
        /\ stack' = Tail(stack)
    BY <1>2 DEF Rediscovered, ConnectFails, Return, Close
  <2>2. Kept
    BY <2>1, ClosedIs DEF Kept, FInv, Shapes
  <2>3. Settled /\ LastFits /\ Calm
    BY <2>1, <2>2, Closing
  <2> QED
    BY <1>1, <2>1, <2>3, Returned DEF TimeoutFam, Excursion, CommandFam, AuthFam, AuthRest
<1>3. ASSUME ~ConnectFails
      PROVE  Settled /\ LastFits /\ Calm /\ s'.last = s.last
  <2>1. s' = s
    BY <1>3, <1>1 DEF Rediscovered, Settle
  <2>2. Kept /\ s'.cmdOk = s.cmdOk /\ s'.up = s.up
    BY <2>1 DEF Kept, FInv, Shapes
  <2>3. ret' \in -2..1 /\ Inside
    BY <1>3, <1>1 DEF Rediscovered, Settle, Return, Jump, Pass, CallFrom, Call, Welcome
  <2> QED
    BY <1>1, <2>2, <2>3, Idle DEF InFlight, Senders, Kept
<1>4. ASSUME Call(To("resecured"), Plain("startTls", NoCmd)), ~ConnectFails
      PROVE  FInv'
  BY <1>1, <1>3, <1>4, ToIs, CallsOn
     DEF Kin, Callers, CommandFam, TimeoutFam, Excursion, AuthFam, AuthRest, CheckFam,
         AskFam,
           RefreshFam, TlsFam, ConnectFam, QuitFam, Holding, Resenders, Cmd, Heavy, Caps
<1>5. ASSUME Jump(To("resecured")), ~ConnectFails
      PROVE  FInv'
  BY <1>1, <1>3, <1>5, ToIs, MovesOn DEF Kin, ConnectFam, Senders
<1>6. \/ ConnectFails
      \/ Call(To("resecured"), Plain("startTls", NoCmd))
      \/ Jump(To("resecured"))
  BY DEF Rediscovered, Settle, Return, Pass, CallFrom
<1> QED
  BY <1>2, <1>4, <1>5, <1>6

LEMMA KeepResecured == FInv /\ Resecured => FInv'
<1> SUFFICES ASSUME FInv, Resecured
             PROVE  FInv'
  OBVIOUS
<1>1. stack # <<>> /\ Top.at = "resecured" /\ ret \in -2..1 /\ IsFrame(Top)
      /\ Suits(Top, Tail(stack))
  BY TopFits DEF Resecured, At, FInv, Shapes, Suits, Fits
<1>2. Settled /\ LastFits /\ Calm /\ s'.last = s.last
  <2>1. s' = s \/ s' = [s EXCEPT !.ser = Top.note]
    BY <1>1 DEF Resecured, Settle
  <2>2. Kept /\ s'.cmdOk = s.cmdOk /\ s'.up = s.up
    BY <2>1 DEF Kept, FInv, Shapes
  <2>3. ret' \in -2..1 /\ Inside
    BY <1>1 DEF Resecured, Settle, Return, Jump, Pass, CallFrom, Call, Welcome
  <2> QED
    BY <1>1, <2>2, <2>3, Idle DEF InFlight, Senders, Kept
<1>3. ASSUME stack' = Tail(stack)
      PROVE  FInv'
  BY <1>1, <1>2, <1>3, Returned DEF TimeoutFam, Excursion, CommandFam, AuthFam, AuthRest
<1>4. \/ stack' = Tail(stack)
  BY DEF Resecured, Settle, Return, Pass, CallFrom
<1> QED
  BY <1>3, <1>4

LEMMA KeepQuit == FInv /\ Quit => FInv'
<1> SUFFICES ASSUME FInv, Quit
             PROVE  FInv'
  OBVIOUS
<1>1. stack # <<>> /\ Top.at = "quit" /\ ret \in -2..1 /\ IsFrame(Top)
      /\ Suits(Top, Tail(stack))
  BY TopFits DEF Quit, At, FInv, Shapes, Suits, Fits
<1>2. Settled /\ LastFits /\ Calm /\ s'.last = s.last
  <2>1. s' = s
    BY <1>1 DEF Quit, Call
  <2>2. Kept /\ s'.cmdOk = s.cmdOk /\ s'.up = s.up
    BY <2>1 DEF Kept, FInv, Shapes
  <2>3. ret' \in -2..1 /\ Inside
    BY <1>1 DEF Quit, Call, Return, Jump, Pass, CallFrom, Call, Welcome
  <2> QED
    BY <1>1, <2>2, <2>3, Idle DEF InFlight, Senders, Kept
<1>3. ASSUME Call(To("quitAnswered"), Plain("ask", Cmd("QUIT", 0)))
      PROVE  FInv'
  BY <1>1, <1>2, <1>3, ToIs, CallsOn
     DEF Kin, Callers, CommandFam, TimeoutFam, Excursion, AuthFam, AuthRest, CheckFam,
         AskFam,
           RefreshFam, TlsFam, ConnectFam, QuitFam, Holding, Resenders, Cmd, Heavy, Caps
<1>4. ASSUME stack' = Tail(stack)
      PROVE  FInv'
  BY <1>1, <1>2, <1>4, Returned DEF TimeoutFam, Excursion, CommandFam, AuthFam, AuthRest
<1>5. \/ Call(To("quitAnswered"), Plain("ask", Cmd("QUIT", 0)))
      \/ stack' = Tail(stack)
  BY DEF Quit, Call, Return, Pass, CallFrom
<1> QED
  BY <1>3, <1>4, <1>5

LEMMA KeepQuitAnswered == FInv /\ QuitAnswered => FInv'
<1> SUFFICES ASSUME FInv, QuitAnswered
             PROVE  FInv'
  OBVIOUS
<1>1. stack # <<>> /\ Top.at = "quitAnswered"
  BY DEF QuitAnswered, At
<1>2. s' = Closed(s) /\ srv' = NoServer /\ UNCHANGED World /\ ret' = 0
      /\ stack' = Tail(stack)
  BY DEF QuitAnswered, Return, Close
<1>3. Kept
  BY <1>2, ClosedIs DEF Kept, FInv, Shapes
<1>4. Settled /\ LastFits /\ Calm
  BY <1>2, <1>3, Closing
<1> QED
  BY <1>1, <1>2, <1>4, Returned DEF TimeoutFam, Excursion, CommandFam, AuthFam, AuthRest

LEMMA KeepReaderAsked == FInv /\ ReaderAsked => FInv'
<1> SUFFICES ASSUME FInv, ReaderAsked
             PROVE  FInv'
  OBVIOUS
<1>1. stack # <<>> /\ Top.at = "readerAsked" /\ ret \in -2..1 /\ IsFrame(Top)
      /\ Suits(Top, Tail(stack))
  BY TopFits DEF ReaderAsked, At, FInv, Shapes, Suits, Fits
<1>2. CASE ret <= 0
  <2>1. s' = [s EXCEPT !.ser = Own(502)] /\ stack' = Tail(stack) /\ ret' = -1 /\ Inside
    BY <1>2 DEF ReaderAsked, Return
  <2>2. Kept /\ s'.cmdOk = s.cmdOk /\ s'.up = s.up
    BY <2>1 DEF Kept, FInv, Shapes
  <2>3. Settled /\ LastFits /\ Calm
    BY <1>1, <1>2, <2>1, <2>2, Idle DEF InFlight, Senders
  <2> QED
    BY <1>1, <2>1, <2>3, Returned DEF TimeoutFam, Excursion, CommandFam, AuthFam, AuthRest
<1>3. CASE ~(ret <= 0)
  <2>1. ret = 1 /\ InFlight
    BY <1>1, <1>3 DEF InFlight, Senders
  <2> QED
    BY <1>1, <1>3, <2>1, ToIs, ReadsFirst
       DEF ReaderAsked, CallFrom, Inside, World, Kin, ConnectFam
<1> QED
  BY <1>2, <1>3

\* The greeting of the server is on its way.
LEMMA Accepts ==
  ASSUME FInv, At("connect"), srv'.out = <<Greeting>>, DOMAIN srv' = DOMAIN srv, s'.up,
         DOMAIN s' = DOMAIN s, s'.last = s.last, s'.handling = s.handling,
         s'.allowTimeout = s.allowTimeout, UNCHANGED World,
         Call(To("greeted"), Check)
  PROVE  FInv'
<1> DEFINE t == To("greeted")
<1>1. stack # <<>> /\ Top.at = "connect" /\ ret \in -2..1 /\ IsFrame(Top)
      /\ Suits(Top, Tail(stack)) /\ IsSeq(Tail(stack))
  BY TopFits DEF At, FInv, Shapes, Suits, Fits
<1>2. IsFrame(t) /\ t.at = "greeted" /\ t.cmd = Top.cmd
  BY <1>1, ToIs
<1>3. IsFrame(Check) /\ Check.at = "check"
  BY DEF Check, Frame, IsFrame
<1>4. Call(t, Check) /\ stack' = <<Check, t>> \o Tail(stack) /\ ret' = ret
  BY DEF Call
<1> HIDE DEF t
<1>5. WillFit(t, Tail(stack))
  <2>1. Kin(Top.at, t.at)
    BY <1>1, <1>2 DEF Kin, ConnectFam
  <2> QED
    BY <1>1, <1>2, <2>1, FamilyFits DEF WillFit, Suits
<1>6. WillFit(Check, <<t>> \o Tail(stack))
  <2>1. /\ <<t>> \o Tail(stack) # <<>> /\ (<<t>> \o Tail(stack))[1] = t
        /\ ~NoGreeted(<<t>> \o Tail(stack))
    BY <1>1, <1>2, OnTop DEF NoGreeted
  <2>2. t.at \in Callers(Check.at)
    BY <1>2, <1>3, CheckersAre DEF CheckFam
  <2> QED
    BY <1>2, <1>3, <2>1, <2>2
       DEF WillFit, Fits, Holding, Watching, Reading, CommandFam, AskFam,
           Resenders, Excursion, AuthRest
<1>7. Whole(stack', reader.asked, reader.phase, s'.last, Orderly)
  BY <1>1, <1>4, <1>5, <1>6, StackUnder, Called DEF WillFit, LastFits
<1>8. /\ Pushes(stack', Check, <<t>> \o Tail(stack)) /\ stack' # <<>> /\ Top' = Check
      /\ Pushes(<<t>> \o Tail(stack), t, Tail(stack))
      /\ Len(stack') >= 2 => stack'[2] = t
  BY <1>1, <1>4, CallIs
<1>9. Has(stack', Excursion) <=> Has(stack, Excursion)
  <2>1. \A labels : Has(stack', labels) <=>
                      Check.at \in labels \/ t.at \in labels \/ Has(Tail(stack), labels)
    BY <1>8, HasIs
  <2> QED
    BY <1>1, <1>2, <1>3, <2>1, TopFits DEF Excursion
<1>10. Coming' /\ InFlight'
  <2>1. Greeting.code = 200
    BY DEF Greeting, Reply
  <2>2. srv'.out = IF Manifold(Greeting.code) THEN <<Greeting, Data>> ELSE <<Greeting>>
    BY <2>1 DEF Manifold
  <2>3. Greeting.code \notin {101, 215, 220}
    BY <2>1
  <2>4. Coming'
    BY <2>2, <2>3 DEF Coming
  <2> QED
    BY <1>3, <1>8, <2>4 DEF InFlight
<1>11. Flow'
  BY <1>10 DEF Flow
<1>12. GreetOK'
  <2>1. Greeting.code = 200
    BY DEF Greeting, Reply
  <2> QED
    BY <1>3, <1>8, <2>1 DEF GreetOK
<1>13. WriteOK' /\ WaitOK' /\ AnswerOK'
  BY <1>3, <1>8 DEF WriteOK, WaitOK, AnswerOK, At
<1>14. StackOK'
  BY <1>7, <1>9, Weaker DEF StackOK, Stacked, Orderly, World
<1>15. HandlingOK' /\ PhaseOK'
  BY <1>1, <1>9 DEF FInv, HandlingOK, PhaseOK, World
<1>16. Shapes'
  BY <1>1, <1>4 DEF FInv, Shapes, World
<1> QED
  BY <1>11, <1>12, <1>13, <1>14, <1>15, <1>16 DEF FInv

LEMMA KeepConnect == FInv /\ Connect => FInv'
<1> SUFFICES ASSUME FInv, Connect
             PROVE  FInv'
  OBVIOUS
<1>1. stack # <<>> /\ Top.at = "connect" /\ At("connect")
  BY DEF Connect, At
<1>2. CASE s.up
  <2>1. s' = s /\ stack' = Tail(stack) /\ ret' = 1 /\ Inside
    BY <1>2 DEF Connect, Return
  <2>2. Settled /\ LastFits /\ Calm
    BY <1>1, <2>1, Idle DEF InFlight, Senders, Kept
  <2> QED
    BY <1>1, <2>1, <2>2, Returned DEF TimeoutFam, Excursion, CommandFam, AuthFam, AuthRest
<1>3. CASE ~s.up
  <2> DEFINE t == [Closed(s) EXCEPT !.force = @ \/ conf.force]
  <2>1. \/ s' = t /\ stack' = Tail(stack) /\ ret' = 0 /\ UNCHANGED <<srv, reader>>
        \/ /\ s' = [Closed(t) EXCEPT !.ser = Own(580)]
           /\ stack' = Tail(stack) /\ ret' = 0 /\ UNCHANGED <<srv, reader>>
        \/ /\ s' = [t EXCEPT !.up = TRUE, !.tlsTried = conf.implicit,
                       !.security = IF conf.implicit THEN "implicit" ELSE "clear"]
           /\ srv' = [Accepted EXCEPT !.tls = conf.implicit]
           /\ Call(To("greeted"), Check) /\ UNCHANGED World
    BY <1>3 DEF Connect, Return, CallFrom, Inside, World
  <2>2. /\ DOMAIN t = DOMAIN s /\ t.last = s.last /\ t.handling = s.handling
        /\ t.allowTimeout = s.allowTimeout /\ t.up = FALSE
    BY DEF Closed, FInv, Shapes
  <2> HIDE DEF t
  <2>3. CASE \/ s' = t /\ stack' = Tail(stack) /\ ret' = 0 /\ UNCHANGED <<srv, reader>>
             \/ /\ s' = [Closed(t) EXCEPT !.ser = Own(580)]
                /\ stack' = Tail(stack) /\ ret' = 0 /\ UNCHANGED <<srv, reader>>
    <3> DEFINE u == Closed(t)
    <3>0. /\ DOMAIN u = DOMAIN s /\ u.last = s.last /\ u.handling = s.handling
          /\ u.allowTimeout = s.allowTimeout
      BY <2>2, ClosedIs
    <3>1. s' = t \/ s' = [u EXCEPT !.ser = Own(580)]
      BY <2>3
    <3> HIDE DEF u
    <3>4. Kept
      BY <2>2, <3>0, <3>1 DEF Kept, FInv, Shapes
    <3>2. Settled /\ LastFits
      BY <2>3, <3>4 DEF Settled, LastFits, Kept, FInv, Shapes
    <3>3. Calm
      <4>1. ~srv.up
        BY <1>3 DEF FInv, Flow
      <4>2. Leftover
        BY <1>1, QuietHere DEF Quiet, InFlight, Senders
      <4> QED
        BY <2>3, <4>1, <4>2 DEF Calm, Unread, Leftover
    <3> QED
      BY <1>1, <2>3, <3>2, <3>3, Returned
         DEF TimeoutFam, Excursion, CommandFam, AuthFam, AuthRest
  <2>4. ASSUME s' = [t EXCEPT !.up = TRUE, !.tlsTried = conf.implicit,
                       !.security = IF conf.implicit THEN "implicit" ELSE "clear"],
               srv' = [Accepted EXCEPT !.tls = conf.implicit],
               Call(To("greeted"), Check), UNCHANGED World
        PROVE  FInv'
    <3>1. /\ DOMAIN s' = DOMAIN s /\ s'.last = s.last /\ s'.handling = s.handling
          /\ s'.allowTimeout = s.allowTimeout /\ s'.up
      BY <2>2, <2>4 DEF FInv, Shapes
    <3>2. srv'.out = <<Greeting>> /\ DOMAIN srv' = DOMAIN srv
      BY <2>4 DEF Accepted, NoServer, FInv, Shapes
    <3> QED
      BY <1>1, <2>4, <3>1, <3>2, Accepts
  <2> QED
    BY <2>1, <2>3, <2>4
<1> QED
  BY <1>2, <1>3

-------------------------------------------------------------------------------
\* Between two calls, and at the start of one.
LEMMA NoStack ==
  /\ IsSeq(<<>>) /\ Len(<<>>) = 0
  /\ \A labels : ~Has(<<>>, labels)
<1>1. <<>> \in Seq({}) /\ Len(<<>>) = 0
  OBVIOUS
<1> QED
  BY <1>1 DEF IsSeq, Has

LEMMA Resting ==
  ASSUME stack = <<>>, Shapes, PhaseOK, srv.up => s.up,
         Quiet \/ (Leftover /\ UnreadLong)
  PROVE  FInv
<1>1. StackOK /\ GreetOK
  BY NoStack DEF StackOK, Stacked, Whole, GreetOK
<1>2. WriteOK /\ WaitOK /\ AnswerOK /\ ~InFlight
  BY DEF WriteOK, WaitOK, AnswerOK, InFlight, At
<1>3. HandlingOK
  BY NoStack DEF HandlingOK
<1> QED
  BY <1>1, <1>2, <1>3 DEF FInv, Flow

LEMMA Rests ==
  ASSUME stack' = <<>>, Shapes', PhaseOK', srv'.up => s'.up,
         Quiet' \/ (Leftover' /\ UnreadLong')
  PROVE  FInv'
<1>1. StackOK' /\ GreetOK'
  BY NoStack DEF StackOK, Stacked, Whole, GreetOK
<1>2. WriteOK' /\ WaitOK' /\ AnswerOK' /\ ~InFlight'
  BY DEF WriteOK, WaitOK, AnswerOK, InFlight, At
<1>3. HandlingOK'
  BY NoStack DEF HandlingOK
<1> QED
  BY <1>1, <1>2, <1>3 DEF FInv, Flow

LEMMA AtRestQuiet ==
  ASSUME FInv, stack = <<>>, reader.phase \notin {"fetching", "listing"} \/ ret # 1
  PROVE  Quiet /\ (srv.up => s.up)
  BY DEF FInv, Flow, InFlight, UnreadCaps, UnreadLong, At

LEMMA QuietRest ==
  ASSUME Quiet, stack' = <<>>, srv'.out = srv.out, srv'.up = srv.up,
         s'.cmdOk = s.cmdOk
  PROVE  Quiet'
<1>1. ~Has(stack', {"timedOut"})
  BY NoStack
<1> QED
  BY <1>1 DEF Quiet, Leftover, Unread

LEMMA Begins ==
  ASSUME FInv, stack = <<>>, Quiet, srv.up => s.up, NEW f, IsFrame(f), stack' = <<f>>,
         f.at \in {"ask", "connect", "quit"}, UNCHANGED <<s, srv>>, ret' \in -2..1,
         DOMAIN reader' = DOMAIN reader, PhaseOK',
         f.at = "ask" => ~Caps(f.cmd) /\ (Heavy(f.cmd) => Long(reader'.asked)),
         f.at = "connect" => reader'.phase = "opening"
  PROVE  FInv'
<1>1. stack' \in Seq({f}) /\ Len(stack') = 1 /\ stack'[1] = f /\ stack' # <<>> /\ Top' = f
  BY DEF Top
<1>2. \A labels : Has(stack', labels) <=> f.at \in labels
  BY <1>1 DEF Has
<1>3. StackOK'
  <2>1. /\ CarriedBelow(stack', 1)
        /\ \A labels : NoneBelow(stack', 1, labels)
    BY <1>1 DEF CarriedBelow, NoneBelow
  <2>2. f.at \notin Watching /\ f.at \notin Excursion /\ f.at \notin AuthRest
        /\ f.at \notin CommandFam \cup Resenders /\ f.at \in Outer
        /\ (f.at \in Holding => f.at = "ask") /\ (f.at \in ConnectFam => f.at = "connect")
        /\ (f.at \in AskFam => f.at = "ask")
    BY DEF Watching, Reading, Excursion, AuthRest, CommandFam, Resenders, Outer, AskFam,
           ConnectFam, QuitFam, Holding
  <2>3. ASSUME NEW last, NEW ok
        PROVE  Fit(stack', 1, reader'.asked, reader'.phase, last, ok)
    BY <1>1, <2>1, <2>2 DEF Fit, FitCaps, Bulk, Greetless, Watching, Reading
  <2>4. Fit(stack', 1, reader'.asked, reader'.phase, s'.last, Orderly')
    BY <2>3
  <2>5. IsSeq(stack')
    <3>1. stack' \in Seq({f})
      BY <1>1
    <3> QED
      BY <3>1 DEF IsSeq
  <2>6. \A i \in 1..Len(stack') : i = 1
    BY <1>1
  <2>7. Whole(stack', reader'.asked, reader'.phase, s'.last, Orderly')
    BY <2>4, <2>5, <2>6 DEF Whole
  <2> QED
    BY <2>7 DEF StackOK, Stacked
<1>4. ~InFlight'
  BY <1>1 DEF InFlight, Senders
<1>5. Flow'
  <2>1. ~Has(stack', {"timedOut"})
    BY <1>2
  <2> QED
    BY <1>4, <2>1 DEF Flow, Quiet, Leftover, Unread
<1>6. WriteOK' /\ GreetOK' /\ WaitOK' /\ AnswerOK'
  BY <1>1, <1>4 DEF WriteOK, GreetOK, WaitOK, AnswerOK, At
<1>7. HandlingOK'
  BY <1>2 DEF HandlingOK, Excursion
<1>8. Shapes'
  BY DEF FInv, Shapes
<1> QED
  BY <1>3, <1>5, <1>6, <1>7, <1>8 DEF FInv

LEMMA KeepOpen == FInv /\ Open => FInv'
<1> SUFFICES ASSUME FInv, Open
             PROVE  FInv'
  OBVIOUS
<1>1. stack = <<>> /\ reader.phase = "start"
  BY DEF Open, Free
<1>2. Quiet /\ (srv.up => s.up)
  BY <1>1, AtRestQuiet
<1> DEFINE f == Plain("connect", NoCmd)
<1>3. IsFrame(f) /\ f.at = "connect" /\ f.cmd = NoCmd
  BY DEF Plain, Frame, IsFrame
<1>4. /\ stack' = <<f>> /\ ret' = 0 /\ UNCHANGED <<s, srv>>
      /\ reader' = [[Counted EXCEPT !.phase = "opening"] EXCEPT !.asked = f.cmd]
  BY DEF Open, Begin
<1> HIDE DEF f
<1>5. DOMAIN reader' = DOMAIN reader /\ reader'.phase = "opening" /\ reader'.asked = NoCmd
  BY <1>3, <1>4 DEF Counted, FInv, Shapes
<1>6. PhaseOK'
  BY <1>1, <1>4, <1>5 DEF FInv, PhaseOK, Long, NoCmd, Cmd
<1> QED
  BY <1>1, <1>2, <1>3, <1>4, <1>5, <1>6, Begins

LEMMA KeepQuery ==
  ASSUME FInv, NEW verb \in {"GROUP", "STAT", "ARTICLE", "BODY", "LIST"}, NEW arg,
         NEW phase \in {"entering", "open", "fetching", "listing"},
         Query(verb, arg, phase),
         verb \in {"ARTICLE", "BODY", "LIST"} => phase \in {"fetching", "listing"}
  PROVE  FInv'
<1>1. stack = <<>> /\ reader.phase = "open"
  BY DEF Query, Free
<1>2. Quiet /\ (srv.up => s.up)
  BY <1>1, AtRestQuiet
<1> DEFINE f == Plain("ask", Cmd(verb, arg))
<1>3. IsFrame(f) /\ f.at = "ask" /\ f.cmd = Cmd(verb, arg) /\ Cmd(verb, arg).verb = verb
  BY DEF Plain, Frame, IsFrame, Cmd
<1>4. /\ stack' = <<f>> /\ ret' = 0 /\ UNCHANGED <<s, srv>>
      /\ reader' = [[Counted EXCEPT !.phase = phase] EXCEPT !.asked = f.cmd]
  BY DEF Query, Begin
<1> HIDE DEF f
<1>5. DOMAIN reader' = DOMAIN reader /\ reader'.phase = phase
      /\ reader'.asked = Cmd(verb, arg)
  BY <1>3, <1>4 DEF Counted, FInv, Shapes
<1>6. Long(reader'.asked) <=> verb \in {"ARTICLE", "BODY", "LIST"}
  BY <1>3, <1>5 DEF Long
<1>7. PhaseOK'
  BY <1>4, <1>5, <1>6 DEF PhaseOK
<1>8. ~Caps(f.cmd) /\ (Heavy(f.cmd) => Long(reader'.asked))
  BY <1>3, <1>6 DEF Caps, Heavy
<1> QED
  BY <1>1, <1>2, <1>3, <1>4, <1>5, <1>7, <1>8, Begins

LEMMA KeepDied ==
  ASSUME FInv, stack = <<>>, Quiet, srv.up => s.up, UNCHANGED <<s, srv, ret>>,
         stack' = <<Plain("quit", NoCmd)>>, DOMAIN reader' = DOMAIN reader,
         ~Long(reader'.asked), reader'.phase \in {"closed", "open"}
  PROVE  FInv'
<1> DEFINE f == Plain("quit", NoCmd)
<1>1. IsFrame(f) /\ f.at = "quit" /\ stack' = <<f>>
  BY DEF Plain, Frame, IsFrame
<1> HIDE DEF f
<1>2. PhaseOK' /\ ret' \in -2..1
  BY DEF PhaseOK, FInv, Shapes
<1> QED
  BY <1>1, <1>2, Begins

\* A step between two calls that changes little.
LEMMA Between ==
  ASSUME FInv, stack = <<>>, stack' = <<>>, UNCHANGED <<ret, srv>>, Quiet, srv.up => s.up,
         DOMAIN s' = DOMAIN s, s'.up = s.up, s'.cmdOk = s.cmdOk,
         DOMAIN reader' = DOMAIN reader, PhaseOK'
  PROVE  FInv'
<1>1. Shapes'
  BY DEF FInv, Shapes
<1>2. Quiet'
  BY QuietRest
<1> QED
  BY <1>1, <1>2, Rests

\* What the reader does between two calls, and the end of a connection.
LEMMA KeepOpened == FInv /\ Opened => FInv'
<1> SUFFICES ASSUME FInv, Opened
             PROVE  FInv'
  OBVIOUS
<1>1. stack = <<>> /\ reader.phase = "opening" /\ stack' = <<>> /\ UNCHANGED <<ret, srv>>
      /\ s' = [s EXCEPT !.allowTimeout = ret > 0]
      /\ reader' = [reader EXCEPT !.phase = IF ret > 0 THEN "open" ELSE "closed"]
  BY DEF Opened
<1>2. Quiet /\ (srv.up => s.up)
  BY <1>1, AtRestQuiet
<1>3. DOMAIN s' = DOMAIN s /\ s'.up = s.up /\ s'.cmdOk = s.cmdOk
  BY <1>1 DEF FInv, Shapes
<1>4. DOMAIN reader' = DOMAIN reader /\ reader'.phase \in {"open", "closed"}
  BY <1>1 DEF FInv, Shapes
<1>5. PhaseOK'
  BY <1>1, <1>4 DEF PhaseOK
<1> QED
  BY <1>1, <1>2, <1>3, <1>4, <1>5, Between

LEMMA KeepWait == FInv /\ Wait => FInv'
<1> SUFFICES ASSUME FInv, Wait
             PROVE  FInv'
  OBVIOUS
<1>1. stack = <<>> /\ reader.phase = "open" /\ stack' = <<>>
      /\ UNCHANGED <<ret, srv, reader>> /\ s' = [s EXCEPT !.idle = TRUE]
  BY DEF Wait
<1>2. Quiet /\ (srv.up => s.up)
  BY <1>1, AtRestQuiet
<1>3. DOMAIN s' = DOMAIN s /\ s'.up = s.up /\ s'.cmdOk = s.cmdOk
  BY <1>1 DEF FInv, Shapes
<1>4. PhaseOK'
  BY <1>1 DEF PhaseOK
<1> QED
  BY <1>1, <1>2, <1>3, <1>4, Between

LEMMA KeepEnter == ASSUME NEW g, FInv, Enter(g) PROVE FInv'
  BY KeepQuery DEF Enter

LEMMA KeepStat == ASSUME NEW n, FInv, Stat(n) PROVE FInv'
  BY KeepQuery DEF Stat

LEMMA KeepFetch ==
  ASSUME NEW n, NEW verb \in {"ARTICLE", "BODY"}, FInv, Fetch(n, verb)
  PROVE  FInv'
  BY KeepQuery DEF Fetch

LEMMA KeepList == FInv /\ List => FInv'
  BY KeepQuery DEF List

LEMMA KeepEntered == FInv /\ Entered => FInv'
<1> SUFFICES ASSUME FInv, Entered
             PROVE  FInv'
  OBVIOUS
<1>1. stack = <<>> /\ reader.phase = "entering" /\ UNCHANGED <<ret, s, srv>>
  BY DEF Entered
<1>2. Quiet /\ (srv.up => s.up) /\ ~Long(reader.asked)
  BY <1>1, AtRestQuiet DEF FInv, PhaseOK
<1>3. CASE ret = -2
  <2>1. stack' = <<Plain("quit", NoCmd)>> /\ reader' = [reader EXCEPT !.phase = "closed"]
    BY <1>3 DEF Entered, Died
  <2>2. DOMAIN reader' = DOMAIN reader /\ reader'.phase = "closed"
        /\ reader'.asked = reader.asked
    BY <2>1 DEF FInv, Shapes
  <2> QED
    BY <1>1, <1>2, <2>1, <2>2, KeepDied
<1>4. CASE ret # -2
  <2>1. stack' = <<>>
        /\ reader' = [reader EXCEPT !.phase = "open", !.inNg = ret > 0,
                        !.group = IF ret > 0 THEN reader.asked.arg ELSE NoGroup]
    BY <1>1, <1>4 DEF Entered
  <2>2. DOMAIN reader' = DOMAIN reader /\ reader'.phase = "open"
    BY <2>1 DEF FInv, Shapes
  <2>3. PhaseOK'
    BY <2>1, <2>2 DEF PhaseOK
  <2> QED
    BY <1>1, <1>2, <2>1, <2>2, <2>3, Between
<1> QED
  BY <1>3, <1>4

LEMMA KeepLeave == FInv /\ Leave => FInv'
<1> SUFFICES ASSUME FInv, Leave
             PROVE  FInv'
  OBVIOUS
<1>1. stack = <<>> /\ reader.phase = "open" /\ stack' = <<>> /\ UNCHANGED <<ret, s, srv>>
      /\ reader' = [reader EXCEPT !.inNg = FALSE, !.group = NoGroup]
  BY DEF Leave
<1>2. Quiet /\ (srv.up => s.up)
  BY <1>1, AtRestQuiet
<1>3. DOMAIN reader' = DOMAIN reader /\ reader'.phase = "open"
  BY <1>1 DEF FInv, Shapes
<1>4. PhaseOK'
  BY <1>1, <1>3 DEF PhaseOK
<1> QED
  BY <1>1, <1>2, <1>3, <1>4, Between

LEMMA KeepFetched == FInv /\ Fetched => FInv'
<1> SUFFICES ASSUME FInv, Fetched
             PROVE  FInv'
  OBVIOUS
<1>1. stack = <<>> /\ reader.phase = "fetching" /\ stack' = <<>> /\ UNCHANGED <<ret, srv>>
  BY DEF Fetched
<1>2. ret \in -2..1 /\ (srv.up => s.up) /\ Leftover
  BY <1>1 DEF FInv, Shapes, Flow, InFlight, Quiet
<1>3. DOMAIN reader' = DOMAIN reader /\ reader'.phase \in {"open", "closed"}
  BY <1>2 DEF FInv, Shapes, Fetched
<1>4. PhaseOK'
  BY <1>1, <1>3 DEF PhaseOK
<1>5. CASE ret > 0
  <2>1. s' = [s EXCEPT !.cmdOk = FALSE]
    BY <1>2, <1>5 DEF Fetched
  <2>2. DOMAIN s' = DOMAIN s /\ s'.up = s.up /\ ~s'.cmdOk
    BY <2>1 DEF FInv, Shapes
  <2>3. Shapes'
    BY <1>1, <1>3, <2>2 DEF FInv, Shapes
  <2>4. ~Has(stack', {"timedOut"})
    BY <1>1, NoStack
  <2>5. Quiet'
    BY <1>1, <1>2, <2>2, <2>4 DEF Quiet, Leftover, Unread
  <2> QED
    BY <1>1, <1>2, <1>4, <2>2, <2>3, <2>5, Rests
<1>6. CASE ~(ret > 0)
  <2>1. s' = s
    BY <1>2, <1>6 DEF Fetched
  <2>2. Quiet
    BY <1>1, <1>2, <1>6, AtRestQuiet
  <2> QED
    BY <1>1, <1>2, <1>3, <1>4, <2>1, <2>2, Between
<1> QED
  BY <1>5, <1>6

LEMMA KeepReadBody == FInv /\ ReadBody => FInv'
<1> SUFFICES ASSUME FInv, ReadBody
             PROVE  FInv'
  OBVIOUS
<1>1. /\ stack = <<>> /\ reader.phase = "open" /\ stack' = <<>> /\ UNCHANGED ret
      /\ reader' = [reader EXCEPT !.body = FALSE]
      /\ s' = [s EXCEPT !.cmdOk = TRUE] /\ srv' = [srv EXCEPT !.out = <<>>]
  BY DEF ReadBody
<1>2. Shapes' /\ reader'.phase = "open" /\ srv'.out = <<>> /\ s'.up = s.up
      /\ srv'.up = srv.up
  BY <1>1 DEF FInv, Shapes
<1>3. PhaseOK'
  BY <1>1, <1>2 DEF PhaseOK
<1>4. Quiet' /\ (srv'.up => s'.up)
  BY <1>1, <1>2 DEF Quiet, Leftover, Unread, FInv, Flow
<1> QED
  BY <1>1, <1>2, <1>3, <1>4, Rests

LEMMA KeepListed == FInv /\ Listed => FInv'
<1> SUFFICES ASSUME FInv, Listed
             PROVE  FInv'
  OBVIOUS
<1>1. /\ stack = <<>> /\ reader.phase = "listing" /\ stack' = <<>> /\ UNCHANGED ret
      /\ reader' = [reader EXCEPT !.phase = "open"]
      /\ s' = [s EXCEPT !.cmdOk = @ \/ (ret > 0 /\ srv.out # <<>>)]
      /\ srv' = [srv EXCEPT !.out = IF ret > 0 THEN <<>> ELSE @]
  BY DEF Listed
<1>2. Shapes' /\ reader'.phase = "open" /\ s'.up = s.up /\ srv'.up = srv.up
      /\ srv'.out = (IF ret > 0 THEN <<>> ELSE srv.out)
      /\ s'.cmdOk = (s.cmdOk \/ (ret > 0 /\ srv.out # <<>>))
  BY <1>1 DEF FInv, Shapes
<1>3. PhaseOK'
  BY <1>1, <1>2 DEF PhaseOK
<1>4. srv'.up => s'.up
  BY <1>2 DEF FInv, Flow
<1>5. Quiet'
  <2>1. CASE ret > 0
    BY <1>2, <2>1 DEF Quiet, Leftover, Unread
  <2>2. CASE ~(ret > 0)
    <3>1. Quiet /\ ret # 1
      BY <1>1, <2>2, AtRestQuiet
    <3>2. ~Has(stack', {"timedOut"})
      BY <1>1, NoStack
    <3> QED
      BY <1>2, <2>2, <3>1, <3>2 DEF Quiet, Leftover, Unread
  <2> QED
    BY <2>1, <2>2
<1> QED
  BY <1>1, <1>2, <1>3, <1>4, <1>5, Rests

LEMMA KeepRest == FInv /\ Rest => FInv'
<1> SUFFICES ASSUME FInv, Rest
             PROVE  FInv'
  OBVIOUS
<1>1. stack = <<>> /\ reader.phase = "open" /\ stack' = <<Plain("quit", NoCmd)>>
      /\ UNCHANGED <<ret, s, srv>> /\ reader' = [reader EXCEPT !.asked = NoCmd]
  BY DEF Rest
<1>2. Quiet /\ (srv.up => s.up)
  BY <1>1, AtRestQuiet
<1>3. DOMAIN reader' = DOMAIN reader /\ reader'.phase = "open" /\ reader'.asked = NoCmd
  BY <1>1 DEF FInv, Shapes
<1>4. ~Long(NoCmd)
  BY DEF Long, NoCmd, Cmd
<1> QED
  BY <1>1, <1>2, <1>3, <1>4, KeepDied

LEMMA KeepDrop == FInv /\ Drop => FInv'
<1> SUFFICES ASSUME FInv, Drop
             PROVE  FInv'
  OBVIOUS
<1>1. /\ UNCHANGED <<stack, ret, s, reader>>
      /\ \E out \in {srv.out, <<>>} : srv' = [srv EXCEPT !.up = FALSE, !.out = out]
  BY DEF Drop
<1>2. Shapes' /\ ~srv'.up /\ srv'.out \in {srv.out, <<>>}
  BY <1>1 DEF FInv, Shapes
<1>3. StackOK' /\ HandlingOK' /\ PhaseOK' /\ WaitOK' /\ AnswerOK'
  BY <1>1 DEF FInv, StackOK, Stacked, Orderly, HandlingOK, PhaseOK, WaitOK, AnswerOK,
              InFlight, Top, At
<1>4. WriteOK'
  BY <1>1, <1>2 DEF FInv, WriteOK, Unread, Top, At
<1>5. GreetOK'
  <2>1. Top' = Top /\ UNCHANGED <<stack, ret, s>>
    BY <1>1 DEF Top
  <2>2. srv'.out = srv.out \/ srv'.out = <<>>
    BY <1>2
  <2>3. GreetOK
    BY DEF FInv
  <2>4. CASE srv'.out = srv.out
    BY <2>1, <2>3, <2>4 DEF GreetOK
  <2>5. CASE srv'.out = <<>>
    BY <2>1, <2>3, <2>5 DEF GreetOK
  <2> QED
    BY <2>2, <2>4, <2>5
<1>6. Flow'
  <2>1. CASE InFlight
    <3>1. Coming
      BY <2>1 DEF FInv, Flow
    <3>2. Coming'
      <4>1. CASE srv'.out = <<>>
        BY <1>2, <4>1 DEF Coming, Leftover
      <4>2. CASE srv'.out = srv.out
        <5>1. s'.last = s.last
          BY <1>1
        <5> QED
          BY <1>2, <3>1, <4>2, <5>1, StillComing
      <4> QED
        BY <1>2, <4>1, <4>2
    <3>3. InFlight'
      BY <1>1, <2>1 DEF InFlight, Top
    <3> QED
      BY <1>2, <3>2, <3>3 DEF Flow
  <2>2. CASE ~InFlight
    <3>1. Leftover /\ ~InFlight'
      BY <1>1, <2>2 DEF FInv, Flow, Quiet, InFlight, Top
    <3>2. Quiet'
      BY <1>2, <3>1 DEF Quiet, Leftover, Unread
    <3> QED
      BY <1>2, <3>1, <3>2 DEF Flow
  <2> QED
    BY <2>1, <2>2
<1> QED
  BY <1>2, <1>3, <1>4, <1>5, <1>6 DEF FInv

LEMMA KeepNothing == FInv /\ UNCHANGED vars => FInv'
<1> SUFFICES ASSUME FInv, UNCHANGED vars
             PROVE  FInv'
  OBVIOUS
<1>1. UNCHANGED <<stack, ret, s, srv, reader>>
  BY DEF vars
<1>2. Shapes' /\ StackOK' /\ WriteOK' /\ GreetOK'
  BY <1>1 DEF FInv, Shapes, StackOK, Stacked, Orderly, WriteOK, GreetOK, Unread, Top, At
<1>3. Flow'
  <2>1. Top' = Top
    BY <1>1 DEF Top
  <2>2. InFlight' <=> InFlight
    BY <1>1, <2>1 DEF InFlight
  <2>3. (Leftover' <=> Leftover) /\ (Unread' <=> Unread)
    BY <1>1, <2>1 DEF Leftover, Unread
  <2>4. Coming => Coming'
    BY <1>1, StillComing
  <2>5. Quiet' <=> Quiet
    BY <1>1, <2>3 DEF Quiet
  <2>6. (UnreadCaps' <=> UnreadCaps) /\ (UnreadLong' <=> UnreadLong)
    BY <1>1, <2>1 DEF UnreadCaps, UnreadLong, At, Top
  <2> QED
    BY <1>1, <2>2, <2>3, <2>4, <2>5, <2>6 DEF FInv, Flow
<1>4. AnswerOK' /\ WaitOK' /\ HandlingOK' /\ PhaseOK'
  BY <1>1 DEF FInv, AnswerOK, InFlight, WaitOK, Orderly, HandlingOK, PhaseOK, Top, At
<1> QED
  BY <1>2, <1>3, <1>4 DEF FInv

LEMMA StartsInStep == Init => FInv
<1> SUFFICES ASSUME Init
             PROVE  FInv
  OBVIOUS
<1>1. stack = <<>> /\ Shapes
  BY DEF Init, Shapes, NoServer
<1>2. ~srv.up /\ srv.out = <<>> /\ ~s.allowTimeout /\ reader.phase = "start"
  BY DEF Init, NoServer
<1>3. PhaseOK
  BY <1>1, <1>2 DEF PhaseOK
<1>4. Quiet
  BY <1>2 DEF Quiet, Leftover, Unread
<1> QED
  BY <1>1, <1>2, <1>3, <1>4, Resting

LEMMA StepsInStep == FInv /\ Step => FInv'
<1> SUFFICES ASSUME FInv, Step
             PROVE  FInv'
  OBVIOUS
<1>1. ASSUME Command \/ CommandProtected \/ CommandWrite \/ CommandWriteFails
      PROVE  FInv'
  BY <1>1, KeepCommand, KeepCommandProtected, KeepCommandWrite, KeepCommandWriteFails
<1>2. ASSUME CheckRead \/ CheckTimedOut \/ CheckJudge \/ CheckUpgraded \/ CheckResent
               \/ CheckAuthorised
      PROVE  FInv'
  BY <1>2, KeepCheckRead, KeepCheckTimedOut, KeepCheckJudge, KeepCheckUpgraded,
     KeepCheckResent, KeepCheckAuthorised
<1>3. ASSUME Timeout \/ TimeoutReconnected \/ TimeoutRegrouped \/ TimeoutRepeated
      PROVE  FInv'
  BY <1>3, KeepTimeout, KeepTimeoutReconnected, KeepTimeoutRegrouped, KeepTimeoutRepeated
<1>4. ASSUME Ask \/ Asked \/ Answered \/ Refresh \/ RefreshAsked \/ RefreshAnswered
      PROVE  FInv'
  BY <1>4, KeepAsk, KeepAsked, KeepAnswered, KeepRefresh, KeepRefreshAsked,
     KeepRefreshAnswered
<1>5. ASSUME RequireTls \/ StartTls \/ StartTlsAnswered \/ StartTlsRefreshed
               \/ StartTlsRegrouped \/ StartTlsRestored
      PROVE  FInv'
  BY <1>5, KeepRequireTls, KeepStartTls, KeepStartTlsAnswered, KeepStartTlsRefreshed,
     KeepStartTlsRegrouped, KeepStartTlsRestored
<1>6. ASSUME Auth \/ AuthLoop \/ AuthSafe \/ AuthUserAnswered \/ AuthPassAnswered
               \/ AuthUpgraded \/ AuthRefreshed \/ AuthDone \/ AuthResent
      PROVE  FInv'
  BY <1>6, KeepAuth, KeepAuthLoop, KeepAuthSafe, KeepAuthUserAnswered,
     KeepAuthPassAnswered, KeepAuthUpgraded, KeepAuthRefreshed, KeepAuthDone,
     KeepAuthResent
<1>7. ASSUME Connect \/ Greeted \/ Discovered \/ Secured \/ ReaderAsked
               \/ ReaderAnswered \/ Rediscovered \/ Resecured \/ Quit \/ QuitAnswered
      PROVE  FInv'
  BY <1>7, KeepConnect, KeepGreeted, KeepDiscovered, KeepSecured, KeepReaderAsked,
     KeepReaderAnswered, KeepRediscovered, KeepResecured, KeepQuit, KeepQuitAnswered
<1> QED
  BY <1>1, <1>2, <1>3, <1>4, <1>5, <1>6, <1>7 DEF Step

LEMMA StaysInStep == FInv /\ [Next]_vars => FInv'
<1> SUFFICES ASSUME FInv, [Next]_vars
             PROVE  FInv'
  OBVIOUS
<1>1. CASE Step
  BY <1>1, StepsInStep
<1>2. CASE Drop \/ Open \/ Opened \/ Wait \/ Entered \/ Leave \/ Fetched \/ ReadBody
             \/ List \/ Listed \/ Rest
  BY <1>2, KeepDrop, KeepOpen, KeepOpened, KeepWait, KeepEntered, KeepLeave,
     KeepFetched, KeepReadBody, KeepList, KeepListed, KeepRest
<1>3. ASSUME NEW g \in Groups, Enter(g)
      PROVE  FInv'
  BY <1>3, KeepEnter
<1>4. ASSUME NEW n \in Articles, Stat(n)
      PROVE  FInv'
  BY <1>4, KeepStat
<1>5. ASSUME NEW n \in Articles, NEW verb \in {"ARTICLE", "BODY"}, Fetch(n, verb)
      PROVE  FInv'
  BY <1>5, KeepFetch
<1>6. CASE UNCHANGED vars
  BY <1>6, KeepNothing
<1> QED
  BY <1>1, <1>2, <1>3, <1>4, <1>5, <1>6 DEF Next

\* trn never waits for a reply that no command has asked for, and sends a
\* command only when all of the last reply has been read: commands and replies
\* stay in step through every retry, reconnection, upgrade and authentication
\* (check, nntp_handle_timeout, nntp_handle_auth_err), whatever the settings
\* and the server.
THEOREM RepliesStayInStep == Spec => []RepliesInStep
<1>1. FInv => RepliesInStep
  BY InStep DEF RepliesInStep
<1> QED
  BY <1>1, StartsInStep, StaysInStep, PTL DEF Spec
===============================================================================
