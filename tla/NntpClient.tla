------------------------------- MODULE NntpClient ------------------------------
(***************************************************************************)
(* trn's session with a news server: commands and replies, reconnection    *)
(* after a timeout or a lost connection, STARTTLS, authentication on       *)
(* demand, capabilities, the selected group, and multi-line replies.       *)
(*                                                                         *)
(* Translated from nntp/nntpclient.cpp, nntp/nntpinit.cpp,                 *)
(* nntp/nntpauth.cpp and libtrn/nntp.cpp. These functions call each other  *)
(* recursively, so the calls in progress are a stack of frames, and each   *)
(* action runs the top one up to its next call. The server is external.    *)
(***************************************************************************)
EXTENDS Integers, Sequences

CONSTANTS
  Groups,     \* newsgroups
  NoGroup,
  Articles,   \* article numbers of each group
  Settings,   \* what the access file may say of the source
  Hosts,      \* what the server may support and require
  MaxCalls,   \* bound on the reader's commands
  MaxFaults   \* bound on lost connections and temporary errors

Features == {"STARTTLS", "USER", "SASL", "READER"}

ASSUME ArticlesAssumption == Articles \subseteq Nat \ {0}
ASSUME BoundsAssumption == MaxCalls \in Nat /\ MaxFaults \in Nat
ASSUME SettingsAssumption ==
  Settings \subseteq
    [tlsForAuth : BOOLEAN,    \* require_tls_for_auth
     startTls   : BOOLEAN,    \* allow_starttls
     implicit   : BOOLEAN,    \* implicit_tls
     legacy     : BOOLEAN,    \* allow_legacy_auth
     force      : BOOLEAN,    \* NNTP_FORCE_AUTH_NEEDED
     user       : BOOLEAN]    \* there is a user name
ASSUME HostsAssumption ==
  Hosts \subseteq
    [features : SUBSET Features,  \* what it supports
     lists    : BOOLEAN,          \* it knows CAPABILITIES
     needsTls : BOOLEAN,          \* no group without TLS
     needsAuth : BOOLEAN,         \* no group without authentication
     guarded  : BOOLEAN,          \* nor a list of capabilities
     open     : BOOLEAN]          \* a group, but not its articles

VARIABLES
  stack,    \* the calls in progress, the innermost first
  ret,      \* what the last call returned
  s,        \* g_nntp, with its link, and handling_timeout
  srv,      \* the server's end of the connection
  reader,   \* what the rest of trn is doing with the session
  faults,   \* lost connections and temporary errors so far
  conf,     \* the source's settings
  host      \* the server's abilities

vars == <<stack, ret, s, srv, reader, faults, conf, host>>

Cmd(verb, arg) == [verb |-> verb, arg |-> arg]
NoCmd == Cmd("none", 0)

\* A reply: its code, the command it answers, and the group and the article
\* that are selected after it.
Reply(code, cmd, g, a) == [code |-> code, of |-> cmd, group |-> g, art |-> a]
\* A reply line that trn writes itself.
Own(code) == Reply(code, NoCmd, NoGroup, 0)

-------------------------------------------------------------------------------
\* The server.

NoServer == [up |-> FALSE, tls |-> FALSE, authed |-> FALSE, user |-> FALSE,
             group |-> NoGroup, art |-> 0, out |-> <<>>]
\* The rest of a multi-line reply.
Data == Reply(0, NoCmd, NoGroup, 0)

Secure == srv.tls \/ ~host.needsTls
\* The capabilities that the server lists at this point of the session.
Offered ==
  {f \in host.features :
     /\ f = "STARTTLS" => ~srv.tls /\ ~srv.authed
     /\ f \in {"USER", "SASL"} => ~srv.authed /\ Secure}

\* Why it may refuse a command.
Refusals(cmd) ==
  IF host.open /\ cmd.verb = "GROUP" THEN {}
  ELSE {code \in {480, 483} :
          IF code = 480 THEN host.needsAuth /\ ~srv.authed ELSE ~Secure}

\* The codes with which the server may answer.
Codes(cmd) ==
  CASE cmd.verb = "CAPABILITIES" ->
         IF ~host.lists THEN {500}
         ELSE IF host.guarded /\ ~srv.authed THEN {480} ELSE {101}
    [] cmd.verb = "STARTTLS" ->
         IF "STARTTLS" \in Offered THEN {382} ELSE {500}
    [] cmd.verb = "AUTHINFO_USER" ->
         IF ~Secure THEN {483} ELSE IF "USER" \in Offered THEN {281, 381} ELSE {500}
    [] cmd.verb = "AUTHINFO_PASS" ->
         IF srv.user THEN {281, 481} ELSE {482}
    [] cmd.verb = "MODE_READER" ->
         IF host.guarded /\ ~srv.authed THEN {480}
         ELSE IF "READER" \in host.features THEN {200} ELSE {500}
    [] cmd.verb = "QUIT" -> {205}
    [] OTHER ->
         IF Refusals(cmd) # {} THEN Refusals(cmd)
         ELSE CASE cmd.verb = "GROUP" -> {211, 411}
                [] cmd.verb = "LIST" -> {215}
                [] OTHER -> IF srv.group = NoGroup THEN {412}
                            ELSE IF cmd.verb = "STAT" THEN {223, 423}
                            ELSE {220, 423}

First == CHOOSE n \in Articles : \A m \in Articles : n <= m

\* The server's end after it has answered a command.
Served(cmd, code) ==
  LET group == IF code = 211 THEN cmd.arg ELSE srv.group
      art == IF code = 211 THEN First
             ELSE IF code \in {220, 223} THEN cmd.arg ELSE srv.art
      more == IF code \in {101, 215, 220} THEN <<Data>> ELSE <<>>
  IN [srv EXCEPT !.group = group,
                 !.art = art,
                 !.authed = @ \/ code = 281,
                 !.user = code = 381,
                 !.up = cmd.verb # "QUIT",
                 !.out = @ \o <<Reply(code, cmd, group, art)>> \o more]

\* The connection is lost, with the replies under way or without them.
Drop ==
  /\ srv.up
  /\ faults < MaxFaults
  /\ faults' = faults + 1
  /\ \E out \in {srv.out, <<>>} : srv' = [srv EXCEPT !.up = FALSE, !.out = out]
  /\ UNCHANGED <<stack, ret, s, reader, conf, host>>

-------------------------------------------------------------------------------
\* Calls.

Top == Head(stack)
At(label) == stack # <<>> /\ Top.at = label

\* cmd is the command of the call, note what else it has to remember.
Frame(label, cmd, note) == [at |-> label, cmd |-> cmd, note |-> note]
Plain(label, cmd) == Frame(label, cmd, 0)

Jump(frame) == stack' = <<frame>> \o Tail(stack)
To(label) == [Top EXCEPT !.at = label]
Goto(label) == Jump(To(label)) /\ UNCHANGED ret
Call(top, callee) == stack' = <<callee, top>> \o Tail(stack) /\ UNCHANGED ret
CallFrom(label, callee) == Call(To(label), callee)
Become(callee) == Jump(callee) /\ UNCHANGED ret
Return(value) == stack' = Tail(stack) /\ ret' = value
Pass(label, value) == Jump(To(label)) /\ ret' = value

World == <<reader, faults, conf, host>>
Inside == UNCHANGED <<srv, World>>

\* NntpSession::close(false).
Closed(t) ==
  [t EXCEPT !.up = FALSE, !.known = FALSE, !.caps = {}, !.cmdOk = TRUE,
            !.security = "clear", !.auth = "no", !.tlsTried = FALSE,
            !.group = NoGroup, !.art = 0]
Close(t) == s' = Closed(t) /\ srv' = NoServer /\ UNCHANGED World

Init ==
  /\ stack = <<>>
  /\ ret = 0
  /\ s = [ser |-> Own(0), last |-> NoCmd, late |-> FALSE, idle |-> TRUE,
          handling |-> FALSE, allowTimeout |-> FALSE,
          up |-> FALSE, known |-> FALSE, caps |-> {}, cmdOk |-> TRUE,
          security |-> "clear", auth |-> "no", force |-> FALSE,
          tlsTried |-> FALSE, group |-> NoGroup, art |-> 0]
  /\ srv = NoServer
  /\ reader = [phase |-> "start", inNg |-> FALSE, group |-> NoGroup,
               body |-> FALSE, asked |-> NoCmd, calls |-> 0]
  /\ faults = 0
  /\ conf \in Settings
  /\ host \in Hosts

-------------------------------------------------------------------------------
\* NntpSession::command.

Credential(cmd) == cmd.verb \in {"AUTHINFO_USER", "AUTHINFO_PASS"}
NeedsTls(cmd) == conf.tlsForAuth /\ Credential(cmd)

Setup == {"CAPABILITIES", "MODE_READER", "STARTTLS"}

Command ==
  /\ At("command")
  /\ s' = [s EXCEPT !.last = Top.cmd]
  /\ IF ~s.up THEN Become(Plain("timeout", NoCmd))
     ELSE IF NeedsTls(Top.cmd) THEN CallFrom("protected", Plain("require", NoCmd))
     ELSE Pass("protected", 1)
  /\ Inside

\* nntp_handle_nested_lists: an article whose body is being read is read to
\* its end first. Without one, "Programming error! Nested NNTP calls".
Drains == reader.body /\ Top.cmd.verb # "QUIT"
CommandProtected ==
  /\ At("protected")
  /\ LET forced == s.force /\ Top.cmd.verb \notin Setup
         t == [s EXCEPT !.last = Top.cmd]
     IN \/ /\ ret < 0
           /\ Return(-2)
           /\ UNCHANGED s /\ Inside
        \/ /\ ret >= 0 /\ forced
           /\ s' = [t EXCEPT !.force = FALSE]
           /\ Become(Plain("auth", NoCmd))
           /\ Inside
        \/ /\ ret >= 0 /\ ~forced /\ ~s.cmdOk /\ ~Drains
           /\ s' = t
           /\ Return(IF Top.cmd.verb = "QUIT" THEN 0 ELSE -1)
           /\ Inside
        \/ /\ ret >= 0 /\ ~forced /\ ~s.cmdOk /\ Drains
           /\ s' = [t EXCEPT !.cmdOk = TRUE]
           /\ srv' = [srv EXCEPT !.out = <<>>]
           /\ reader' = [reader EXCEPT !.body = FALSE]
           /\ Goto("write")
           /\ UNCHANGED <<faults, conf, host>>
        \/ /\ ret >= 0 /\ ~forced /\ s.cmdOk
           /\ s' = t
           /\ Goto("write")
           /\ Inside

Sent == [s EXCEPT !.late = s.idle, !.idle = FALSE]

\* The line is sent. A write to a lost connection may fail or not.
CommandWrite ==
  /\ At("write")
  /\ s' = Sent
  /\ Return(1)
  /\ \/ /\ srv.up
        /\ \E code \in Codes(Top.cmd) : srv' = Served(Top.cmd, code)
        /\ UNCHANGED faults
     \/ /\ srv.up /\ faults < MaxFaults   \* a temporary error
        /\ faults' = faults + 1
        /\ srv' = [srv EXCEPT !.out = @ \o <<Reply(503, Top.cmd, srv.group, srv.art)>>]
     \/ /\ ~srv.up
        /\ UNCHANGED <<srv, faults>>
  /\ UNCHANGED <<reader, conf, host>>

CommandWriteFails ==
  /\ At("write")
  /\ ~srv.up
  /\ Become(Plain("timeout", NoCmd))
  /\ UNCHANGED s /\ Inside

-------------------------------------------------------------------------------
\* NntpSession::check. The note of its frame is the retries made so far.

Check == Frame("check", NoCmd, {})

Class(code) == IF code < 400 THEN 1 ELSE IF code < 500 THEN 0 ELSE -1

\* A line is read, and followed by more if it says so.
Read(line) == [s EXCEPT !.ser = line, !.cmdOk = line.code \notin {215, 101}]

CheckRead ==
  /\ At("check")
  /\ srv.out # <<>> \/ ~srv.up
  /\ LET lost == srv.out = <<>>
         line == IF lost THEN Own(503) ELSE Head(srv.out)
     IN IF line.code = 503 /\ "timeout" \notin Top.note /\ s.allowTimeout /\ s.late
        THEN /\ s' = [s EXCEPT !.ser = line]
             /\ CallFrom("timedOut", Plain("timeout", NoCmd))
        ELSE /\ s' = Read(line)
             /\ Pass("checked", IF lost THEN -2 ELSE Class(line.code))
  /\ srv' = [srv EXCEPT !.out = IF @ = <<>> THEN @ ELSE Tail(@)]
  /\ UNCHANGED World

CheckTimedOut ==
  /\ At("timedOut")
  /\ IF ret = 1
     THEN /\ Jump([To("check") EXCEPT !.note = @ \cup {"timeout"}])
          /\ UNCHANGED <<ret, s>>
     ELSE /\ s' = Read(IF ret = 0 THEN Own(205) ELSE s.ser)
          /\ Goto("checked")
  /\ Inside

\* Mutant: the article is not remembered.
RememberedGroupOnly ==
  IF s.ser.code = 211 /\ s.last.verb = "GROUP"
  THEN [s EXCEPT !.group = s.ser.group, !.art = s.ser.art]
  ELSE s

\* remember_selection.
Remembered ==
  IF s.ser.code = 211 /\ s.last.verb = "GROUP"
  THEN [s EXCEPT !.group = s.ser.group, !.art = s.ser.art]
  ELSE IF s.ser.code \in 220..223
  THEN [s EXCEPT !.art = s.ser.art]
  ELSE s

WantsTls ==
  /\ s.ser.code = 483
  /\ "tls" \notin Top.note
  /\ s.auth # "trying"
  /\ s.security = "clear"
  /\ conf.startTls /\ ~s.tlsTried

WantsAuth ==
  /\ s.ser.code = 480
  /\ s.last.verb \notin {"STARTTLS", "AUTHINFO_USER", "AUTHINFO_PASS"}
  /\ s.auth = "no"

CheckFinish == s' = (IF ret > 0 THEN Remembered ELSE s) /\ Return(ret)

CheckJudge ==
  /\ At("checked")
  /\ IF WantsTls
     THEN /\ Call([To("upgraded") EXCEPT !.cmd = s.last], Plain("startTls", NoCmd))
          /\ UNCHANGED s
     ELSE IF WantsAuth
     THEN /\ Call([To("authorised") EXCEPT !.cmd = s.last], Plain("auth", NoCmd))
          /\ UNCHANGED s
     ELSE CheckFinish
  /\ Inside

CheckUpgraded ==
  /\ At("upgraded")
  /\ IF ret < 0 THEN Return(-2)
     ELSE CallFrom("resent", Plain("command", Top.cmd))
  /\ UNCHANGED s /\ Inside

CheckResent ==
  /\ At("resent")
  /\ IF ret <= 0 THEN Return(-2)
     ELSE Jump([To("check") EXCEPT !.note = @ \cup {"tls"}]) /\ UNCHANGED ret
  /\ UNCHANGED s /\ Inside

\* Mutant: the reply to the command that was sent again is not read.
CheckAuthorisedOnly ==
  /\ At("authorised")
  /\ CheckFinish
  /\ Inside

CheckAuthorised ==
  /\ At("authorised")
  /\ IF ret > 0 /\ Top.cmd.verb # "MODE_READER"
     THEN Goto("check") /\ UNCHANGED s
     ELSE CheckFinish
  /\ Inside

-------------------------------------------------------------------------------
\* nntp_handle_timeout. handling_timeout is left set when it fails.

Timeout ==
  /\ At("timeout")
  /\ IF s.last.verb = "QUIT" \/ s.handling
     THEN /\ Return(IF s.last.verb = "QUIT" THEN 0 ELSE -1)
          /\ UNCHANGED s /\ Inside
     ELSE /\ Call([To("reconnected") EXCEPT !.cmd = s.last], Plain("connect", NoCmd))
          /\ Close([s EXCEPT !.handling = TRUE])

TimeoutReconnected ==
  /\ At("reconnected")
  /\ IF ret <= 0 THEN Return(-2)
     ELSE IF reader.inNg
     THEN CallFrom("regrouped", Plain("ask", Cmd("GROUP", reader.group)))
     ELSE CallFrom("repeated", Plain("command", Top.cmd))
  /\ UNCHANGED s /\ Inside

TimeoutRegrouped ==
  /\ At("regrouped")
  /\ IF ret <= 0 THEN Return(-2)
     ELSE CallFrom("repeated", Plain("command", Top.cmd))
  /\ UNCHANGED s /\ Inside

TimeoutRepeated ==
  /\ At("repeated")
  /\ IF ret <= 0
     THEN Return(-1) /\ UNCHANGED s
     ELSE Return(1) /\ s' = [s EXCEPT !.last = Top.cmd, !.handling = FALSE]
  /\ Inside

-------------------------------------------------------------------------------
\* A command and its reply, for nntp_group, nntp_stat, nntp_list, the article
\* cache, and the steps of TLS and of authentication.

Ask ==
  /\ At("ask")
  /\ CallFrom("asked", Plain("command", Top.cmd))
  /\ UNCHANGED s /\ Inside

Asked ==
  /\ At("asked")
  /\ IF ret <= 0 THEN Return(-2) ELSE CallFrom("answered", Check)
  /\ UNCHANGED s /\ Inside

\* nntp_group takes a refusal for a group that is not there.
GroupResult ==
  IF ret \in {-1, 0} /\ s.ser.code \notin {411, 501, 480, 502, 482} THEN -1
  ELSE IF ret \in {-1, 0} THEN 0 ELSE ret

Answered ==
  /\ At("answered")
  /\ Return(IF Top.cmd.verb = "GROUP" THEN GroupResult ELSE ret)
  /\ UNCHANGED s /\ Inside

-------------------------------------------------------------------------------
\* nntp_refresh_capabilities.

Refresh ==
  /\ At("refresh")
  /\ s' = [s EXCEPT !.known = FALSE, !.caps = {}]
  /\ CallFrom("capsAsked", Plain("command", Cmd("CAPABILITIES", 0)))
  /\ Inside

RefreshAsked ==
  /\ At("capsAsked")
  /\ IF ret <= 0 THEN Return(-1) ELSE CallFrom("capsAnswered", Check)
  /\ UNCHANGED s /\ Inside

RefreshAnswered ==
  /\ At("capsAnswered")
  /\ IF s.ser.code \in {500, 501}
     THEN Return(0) /\ UNCHANGED s /\ Inside
     ELSE IF ret <= 0 \/ s.ser.code # 101
     THEN Return(-1) /\ UNCHANGED s /\ Inside
     ELSE IF srv.out = <<>>
     THEN Return(-1) /\ Close([s EXCEPT !.ser = Own(503)])
     ELSE /\ Return(1)
          /\ s' = [s EXCEPT !.known = TRUE, !.caps = Offered, !.cmdOk = TRUE]
          /\ srv' = [srv EXCEPT !.out = <<>>]
          /\ UNCHANGED World

-------------------------------------------------------------------------------
\* nntp_require_tls and nntp_start_tls.

\* Mutant: TLS that cannot be had is not required.
RequireTlsIfAny ==
  /\ At("require")
  /\ IF s.security # "clear" \/ ~conf.startTls
     THEN Return(1) /\ UNCHANGED s
     ELSE Become(Plain("startTls", NoCmd)) /\ UNCHANGED s
  /\ Inside

RequireTls ==
  /\ At("require")
  /\ IF s.security # "clear"
     THEN Return(1) /\ UNCHANGED s
     ELSE IF ~conf.startTls \/ (s.known /\ "STARTTLS" \notin s.caps)
     THEN Return(-2) /\ s' = [s EXCEPT !.ser = Own(483)]
     ELSE Become(Plain("startTls", NoCmd)) /\ UNCHANGED s
  /\ Inside

\* Its frame notes the selection to restore, and the forced authentication.
StartTls ==
  /\ At("startTls")
  /\ IF s.security # "clear"
     THEN Return(1) /\ UNCHANGED s
     ELSE IF s.auth = "yes"
     THEN Return(-1) /\ s' = [s EXCEPT !.ser = Own(483)]
     ELSE IF ~conf.startTls \/ s.tlsTried \/ ~s.up \/ ~s.cmdOk
     THEN Return(-1) /\ UNCHANGED s
     ELSE /\ Call([To("tlsAnswered") EXCEPT
                     !.note = [group |-> s.group, art |-> s.art, force |-> s.force]],
                  Plain("ask", Cmd("STARTTLS", 0)))
          /\ s' = [s EXCEPT !.tlsTried = TRUE, !.force = FALSE]
  /\ Inside

TlsFails(ser) == Return(-1) /\ Close([s EXCEPT !.ser = ser])

StartTlsAnswered ==
  /\ At("tlsAnswered")
  /\ IF ret <= 0 \/ s.ser.code # 382
     THEN TlsFails(s.ser)
     ELSE \/ TlsFails(Own(580))
          \/ /\ srv.up
             /\ CallFrom("tlsRefreshed", Plain("refresh", NoCmd))
             /\ s' = [s EXCEPT !.security = "startTls", !.group = NoGroup, !.art = 0]
             /\ srv' = [srv EXCEPT !.tls = TRUE, !.group = NoGroup, !.art = 0]
             /\ UNCHANGED World

StartTlsDone == Return(1) /\ s' = [s EXCEPT !.force = @ \/ Top.note.force]

\* The group that was selected before is selected again, and its article.
StartTlsRefreshed ==
  /\ At("tlsRefreshed")
  /\ IF ret < 0 THEN TlsFails(s.ser)
     ELSE /\ IF Top.note.group = NoGroup THEN StartTlsDone
             ELSE /\ CallFrom("tlsRegrouped", Plain("ask", Cmd("GROUP", Top.note.group)))
                  /\ UNCHANGED s
          /\ Inside

StartTlsRegrouped ==
  /\ At("tlsRegrouped")
  /\ IF ret <= 0 THEN TlsFails(s.ser)
     ELSE /\ IF Top.note.art = 0 THEN StartTlsDone
             ELSE /\ CallFrom("tlsRestored", Plain("ask", Cmd("STAT", Top.note.art)))
                  /\ UNCHANGED s
          /\ Inside

StartTlsRestored ==
  /\ At("tlsRestored")
  /\ IF ret <= 0 THEN TlsFails(s.ser) ELSE StartTlsDone /\ Inside

-------------------------------------------------------------------------------
\* nntp_handle_auth_err: its frame holds the command to send again.

Auth ==
  /\ At("auth")
  /\ s' = [s EXCEPT !.force = FALSE]
  /\ IF s.auth # "no" THEN Return(-2)
     ELSE Jump([To("authLoop") EXCEPT !.cmd = s.last]) /\ UNCHANGED ret
  /\ Inside

AuthLoop ==
  /\ At("authLoop")
  /\ IF conf.tlsForAuth THEN CallFrom("authSafe", Plain("require", NoCmd))
     ELSE Pass("authSafe", 1)
  /\ UNCHANGED s /\ Inside

\* authentication_method.
UserPass ==
  \/ s.known /\ "USER" \in s.caps
  \/ ~(s.known /\ s.caps \cap {"USER", "SASL"} # {}) /\ conf.legacy

AuthSafe ==
  /\ At("authSafe")
  /\ IF ret < 0
     THEN Return(-2) /\ UNCHANGED s
     ELSE IF s.auth = "yes"
     THEN /\ Jump([To("authDone") EXCEPT !.note = Own(281)])
          /\ UNCHANGED <<ret, s>>
     ELSE IF ~UserPass
     THEN /\ Return(-2)
          /\ s' = [s EXCEPT !.ser = Own(IF "SASL" \in s.caps THEN 503 ELSE 502)]
     ELSE /\ s' = [s EXCEPT !.auth = "trying"]
          /\ IF conf.user
             THEN CallFrom("userAnswered", Plain("ask", Cmd("AUTHINFO_USER", 0)))
             ELSE Pass("userAnswered", -2)
  /\ Inside

\* An authentication that fails may be tried again under TLS.
AuthRefused ==
  /\ s' = [s EXCEPT !.auth = "no"]
  /\ IF s.ser.code # 483 \/ s.security # "clear" THEN Return(-2)
     ELSE CallFrom("authUpgraded", Plain("startTls", NoCmd))

AuthAccepted ==
  /\ s' = [s EXCEPT !.auth = "yes"]
  /\ IF Top.cmd.verb = "CAPABILITIES" THEN Goto("authDone")
     ELSE Call([To("authRefreshed") EXCEPT !.note = s.ser],
               Plain("refresh", NoCmd))

AuthUserAnswered ==
  /\ At("userAnswered")
  /\ IF ret > 0 /\ s.ser.code = 281 THEN AuthAccepted
     ELSE IF ret > 0 /\ s.ser.code = 381
     THEN /\ CallFrom("passAnswered", Plain("ask", Cmd("AUTHINFO_PASS", 0)))
          /\ UNCHANGED s
     ELSE AuthRefused
  /\ Inside

AuthPassAnswered ==
  /\ At("passAnswered")
  /\ IF ret > 0 /\ s.ser.code = 281 THEN AuthAccepted ELSE AuthRefused
  /\ Inside

\* Mutant: a TLS upgrade that fails is not the end of it.
AuthUpgradedAnyway ==
  /\ At("authUpgraded")
  /\ Goto("authLoop")
  /\ UNCHANGED s /\ Inside

AuthUpgraded ==
  /\ At("authUpgraded")
  /\ IF ret < 0 THEN Return(-2) ELSE Goto("authLoop")
  /\ UNCHANGED s /\ Inside

AuthRefreshed ==
  /\ At("authRefreshed")
  /\ IF ret < 0 THEN Return(-2) ELSE Goto("authDone")
  /\ UNCHANGED s /\ Inside

\* MODE READER is not sent again; any other command is.
AuthDone ==
  /\ At("authDone")
  /\ IF Top.cmd.verb = "MODE_READER"
     THEN Return(1) /\ s' = [s EXCEPT !.last = Top.cmd, !.ser = Top.note]
     ELSE CallFrom("authResent", Plain("command", Top.cmd)) /\ UNCHANGED s
  /\ Inside

AuthResent ==
  /\ At("authResent")
  /\ Return(IF ret > 0 THEN 1 ELSE -2)
  /\ UNCHANGED s /\ Inside

-------------------------------------------------------------------------------
\* nntp_connect, and the server_init it calls.

\* What nntp_connect makes of the code that server_init returns.
Welcome(code) == IF code \in {200, 201} THEN 1 ELSE IF code = 502 THEN -1 ELSE 0

Greeting == Reply(200, NoCmd, NoGroup, 0)
Accepted == [NoServer EXCEPT !.up = TRUE, !.out = <<Greeting>>]

Connect ==
  /\ At("connect")
  /\ IF s.up THEN Return(1) /\ UNCHANGED s /\ Inside
     ELSE LET t == [Closed(s) EXCEPT !.force = @ \/ conf.force] IN
          \/ /\ faults < MaxFaults
             /\ faults' = faults + 1
             /\ Return(0)
             /\ s' = t
             /\ UNCHANGED <<srv, reader, conf, host>>
          \/ /\ conf.implicit
             /\ s' = [Closed(t) EXCEPT !.ser = Own(580)]
             /\ Return(0)
             /\ Inside
          \/ /\ s' = [t EXCEPT !.up = TRUE, !.tlsTried = conf.implicit,
                               !.security = IF conf.implicit THEN "implicit" ELSE "clear"]
             /\ srv' = [Accepted EXCEPT !.tls = conf.implicit]
             /\ CallFrom("greeted", Check)
             /\ UNCHANGED World

Greeted ==
  /\ At("greeted")
  /\ IF s.ser.code \in 200..299
     THEN Call([To("discovered") EXCEPT !.note = s.ser], Plain("refresh", NoCmd))
     ELSE Return(Welcome(s.ser.code))
  /\ UNCHANGED s /\ Inside

\* Connected, with the reply line remembered.
Settle == s' = [s EXCEPT !.ser = Top.note] /\ Return(Welcome(Top.note.code))
ConnectFails == Return(0) /\ Close(s)

Discovered ==
  /\ At("discovered")
  /\ IF ret < 0 THEN ConnectFails
     ELSE /\ IF s.auth = "yes" THEN Settle
             ELSE /\ IF conf.startTls /\ "STARTTLS" \in s.caps
                     THEN CallFrom("secured", Plain("startTls", NoCmd))
                     ELSE Pass("secured", 1)
                  /\ UNCHANGED s
          /\ Inside

Secured ==
  /\ At("secured")
  /\ IF ret < 0 THEN Return(0) /\ UNCHANGED s
     ELSE IF s.known /\ "READER" \notin s.caps THEN Settle
     ELSE /\ CallFrom("readerAsked", Plain("command", Cmd("MODE_READER", 0)))
          /\ UNCHANGED s
  /\ Inside

ReaderAsked ==
  /\ At("readerAsked")
  /\ IF ret <= 0 THEN Return(-1) /\ s' = [s EXCEPT !.ser = Own(502)]
     ELSE CallFrom("readerAnswered", Check) /\ UNCHANGED s
  /\ Inside

ReaderAnswered ==
  /\ At("readerAnswered")
  /\ IF \/ ret <= 0 /\ s.ser.code \in {500, 501}
        \/ ret > 0 /\ s.auth = "yes"
     THEN Settle
     ELSE /\ IF s.ser.code \in {200, 201}
             THEN Call([To("rediscovered") EXCEPT !.note = s.ser],
                       Plain("refresh", NoCmd))
             ELSE Return(Welcome(s.ser.code))
          /\ UNCHANGED s
  /\ Inside

Rediscovered ==
  /\ At("rediscovered")
  /\ IF ret < 0 THEN ConnectFails
     ELSE /\ IF s.security = "clear" /\ conf.startTls /\ "STARTTLS" \in s.caps
             THEN CallFrom("resecured", Plain("startTls", NoCmd))
             ELSE Pass("resecured", 1)
          /\ UNCHANGED s /\ Inside

Resecured ==
  /\ At("resecured")
  /\ IF ret < 0 THEN Return(0) /\ UNCHANGED s ELSE Settle
  /\ Inside

-------------------------------------------------------------------------------
\* What the rest of trn does with the session, one call after the other.

Free == stack = <<>> /\ reader.calls < MaxCalls
Counted == [reader EXCEPT !.calls = @ + 1]

Begin(frame, next) ==
  /\ stack' = <<frame>>
  /\ ret' = 0
  /\ reader' = [next EXCEPT !.asked = frame.cmd]
  /\ UNCHANGED <<s, srv, faults, conf, host>>

\* DataSource::open.
Open ==
  /\ Free /\ reader.phase = "start"
  /\ Begin(Plain("connect", NoCmd), [Counted EXCEPT !.phase = "opening"])

Opened ==
  /\ stack = <<>> /\ reader.phase = "opening"
  /\ reader' = [reader EXCEPT !.phase = IF ret > 0 THEN "open" ELSE "closed"]
  /\ s' = [s EXCEPT !.allowTimeout = ret > 0]
  /\ UNCHANGED <<stack, ret, srv, faults, conf, host>>

\* More than a minute passes between two commands.
Wait ==
  /\ stack = <<>> /\ reader.phase = "open"
  /\ ~s.idle
  /\ s' = [s EXCEPT !.idle = TRUE]
  /\ UNCHANGED <<stack, ret, srv, reader, faults, conf, host>>

Query(verb, arg, phase) ==
  /\ Free /\ reader.phase = "open"
  /\ Begin(Plain("ask", Cmd(verb, arg)), [Counted EXCEPT !.phase = phase])

\* nntp_server_died: the source is closed and not used any more.
Died == stack' = <<Plain("quit", NoCmd)>> /\ reader' = [reader EXCEPT !.phase = "closed"]

\* access_newsgroup, which do_newsgroup calls for a group.
Enter(g) == ~reader.inNg /\ Query("GROUP", g, "entering")

Entered ==
  /\ stack = <<>> /\ reader.phase = "entering"
  /\ IF ret = -2 THEN Died
     ELSE /\ reader' = [reader EXCEPT !.phase = "open", !.inNg = ret > 0,
                          !.group = IF ret > 0 THEN reader.asked.arg ELSE NoGroup]
          /\ UNCHANGED stack
  /\ UNCHANGED <<ret, s, srv, faults, conf, host>>

Leave ==
  /\ stack = <<>> /\ reader.phase = "open" /\ reader.inNg
  /\ reader' = [reader EXCEPT !.inNg = FALSE, !.group = NoGroup]
  /\ UNCHANGED <<stack, ret, s, srv, faults, conf, host>>

\* nntp_stat.
Stat(n) == reader.inNg /\ Query("STAT", n, "open")

\* NntpArticleCache::body: the header is fetched too unless it is at hand.
Fetch(n, verb) == reader.inNg /\ Query(verb, n, "fetching")

\* A failure ends the process. The header is read from the reply at once; the
\* rest stays to be read, unless the connection was lost.
Fetched ==
  /\ stack = <<>> /\ reader.phase = "fetching"
  /\ IF ret < 0 THEN reader' = [reader EXCEPT !.phase = "closed"] /\ UNCHANGED s
     ELSE IF ret = 0 THEN reader' = [reader EXCEPT !.phase = "open"] /\ UNCHANGED s
     ELSE /\ reader' = [reader EXCEPT !.phase = "open",
                          !.body = srv.out # <<>> \/ reader.asked.verb = "BODY"]
          /\ s' = [s EXCEPT !.cmdOk = FALSE]
  /\ UNCHANGED <<stack, ret, srv, faults, conf, host>>

\* finish_body, and the pager on its way to the end of the article.
ReadBody ==
  /\ stack = <<>> /\ reader.phase = "open" /\ reader.body
  /\ reader' = [reader EXCEPT !.body = FALSE]
  /\ s' = [s EXCEPT !.cmdOk = TRUE]
  /\ srv' = [srv EXCEPT !.out = <<>>]
  /\ UNCHANGED <<stack, ret, faults, conf, host>>

\* find_active_group: LIST ACTIVE of one group, outside of a group.
List ==
  /\ s.cmdOk /\ ~reader.inNg
  /\ Query("LIST", 0, "listing")

\* nntp_finish_list gives up when the connection is lost.
Listed ==
  /\ stack = <<>> /\ reader.phase = "listing"
  /\ reader' = [reader EXCEPT !.phase = "open"]
  /\ s' = [s EXCEPT !.cmdOk = @ \/ (ret > 0 /\ srv.out # <<>>)]
  /\ srv' = [srv EXCEPT !.out = IF ret > 0 THEN <<>> ELSE @]
  /\ UNCHANGED <<stack, ret, faults, conf, host>>

\* check_data_sources closes an idle source. Before trn waits for a key it has
\* read the article to its end (cache_until_key).
Rest ==
  /\ stack = <<>> /\ reader.phase = "open"
  /\ s.idle /\ s.up /\ ~reader.body
  /\ stack' = <<Plain("quit", NoCmd)>>
  /\ reader' = [reader EXCEPT !.asked = NoCmd]
  /\ UNCHANGED <<ret, s, srv, faults, conf, host>>

\* NntpSession::close(true).
Quit ==
  /\ At("quit")
  /\ IF s.up THEN CallFrom("quitAnswered", Plain("ask", Cmd("QUIT", 0)))
     ELSE Return(0)
  /\ UNCHANGED s /\ Inside

QuitAnswered ==
  /\ At("quitAnswered")
  /\ Return(0)
  /\ Close(s)

-------------------------------------------------------------------------------
\* The program goes on with a call by itself.
Step ==
  \/ Command \/ CommandProtected \/ CommandWrite \/ CommandWriteFails
  \/ CheckRead \/ CheckTimedOut \/ CheckJudge \/ CheckUpgraded \/ CheckResent
  \/ CheckAuthorised
  \/ Timeout \/ TimeoutReconnected \/ TimeoutRegrouped \/ TimeoutRepeated
  \/ Ask \/ Asked \/ Answered
  \/ Refresh \/ RefreshAsked \/ RefreshAnswered
  \/ RequireTls \/ StartTls \/ StartTlsAnswered
  \/ StartTlsRefreshed \/ StartTlsRegrouped \/ StartTlsRestored
  \/ Auth \/ AuthLoop \/ AuthSafe \/ AuthUserAnswered \/ AuthPassAnswered
  \/ AuthUpgraded \/ AuthRefreshed \/ AuthDone \/ AuthResent
  \/ Connect \/ Greeted \/ Discovered \/ Secured \/ ReaderAsked
  \/ ReaderAnswered \/ Rediscovered \/ Resecured
  \/ Quit \/ QuitAnswered

Next ==
  \/ Step
  \/ Drop
  \/ Open \/ Opened \/ Wait
  \/ \E g \in Groups : Enter(g)
  \/ Entered \/ Leave
  \/ \E n \in Articles : Stat(n)
  \/ \E n \in Articles, verb \in {"ARTICLE", "BODY"} : Fetch(n, verb)
  \/ Fetched \/ ReadBody \/ List \/ Listed \/ Rest

\* The program is sequential and never pauses in a call; the server answers.
Spec == Init /\ [][Next]_vars /\ WF_vars(Step)

-------------------------------------------------------------------------------
\* Between two calls, with the connection in use.
AtRest == stack = <<>> /\ s.up /\ srv.up

\* A successful call leaves the answer to its own command, however often the
\* session was renewed, secured or authenticated on the way (check,
\* nntp_handle_timeout, nntp_handle_auth_err).
AnswersItsCommand ==
  stack = <<>> /\ ret > 0 /\ reader.asked # NoCmd => s.ser.of = reader.asked

\* trn never waits for a reply that no command has asked for: it would wait
\* for ever, with the keyboard dead.
AnswerIsComing == At("check") => srv.out # <<>> \/ ~srv.up

\* A command is only sent when all of the last reply has been read, so that its
\* own reply is the next one (NNTP_NEW_CMD_OK, nntp_handle_nested_lists).
NothingLeftUnread == At("write") => srv.out = <<>> \/ ~srv.up

\* Commands and replies stay in step through every retry, reconnection and
\* authentication (check, nntp_handle_timeout, nntp_handle_auth_err).
RepliesInStep == AnswerIsComing /\ NothingLeftUnread

\* Nor does trn write to, or read a reply or the rest of an article from, a
\* connection that it closed on the way, a null pointer by then.
LinkIsThere == At("write") \/ At("check") \/ reader.body => s.up

\* The selection that STARTTLS would restore is the one the server has, after
\* reconnections and refused commands as well (remember_selection).
SelectionAgrees == AtRest => s.group = srv.group /\ s.art = srv.art

\* trn takes itself to be authenticated exactly when the server does, and the
\* capabilities it goes by are those of the present security and
\* authentication (nntp_refresh_capabilities).
LinkAgrees ==
  AtRest =>
    /\ s.auth = "yes" => srv.authed
    /\ s.security # "clear" <=> srv.tls
    /\ s.known => s.caps = Offered

\* Between calls, what the session remembers of the server is what the server
\* remembers of it, and the answer at hand is the one to the call.
SessionAgrees == AnswersItsCommand /\ LinkIsThere /\ SelectionAgrees /\ LinkAgrees

\* "Require TLS For Auth" is kept whatever the server asks for, on a new
\* connection too, if the server lists its capabilities or no connection is
\* lost: no credential is sent in the clear (nntp_require_tls).
CredentialsUnderTls ==
  At("write") /\ conf.tlsForAuth /\ Credential(Top.cmd) /\ (host.lists \/ faults = 0)
    => s.security # "clear"

\* Every call returns: retries, reconnections and upgrades come to an end.
CallsReturn == stack # <<>> ~> stack = <<>>

===============================================================================
