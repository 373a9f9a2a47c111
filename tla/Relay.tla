------------------------------- MODULE Relay -------------------------------
(***************************************************************************)
(* The scans that make another host do the probing: an FTP server told to  *)
(* connect to the port (ftpbounce.go), a list of proxies (proxy.go), and   *)
(* a zombie whose IP ID counts what the target answers (idle_linux.go).    *)
(* The other host is external and may answer anything, or nothing.         *)
(***************************************************************************)
EXTENDS Context, Integers, Sequences

CONSTANTS
    Proxies,        \* sequence of the schemes of opts.Proxies
    IdSpace         \* 2^16: IP IDs are counted modulo it

ASSUME RelayAssumption == IdSpace \in Nat \ {0}

VARIABLES
    relay,      \* "ftp", "proxy" or "idle"
    relPc,
    inbox,      \* ftp: the lines the server sent that are still unread
    replied,    \* history: command -> [code, lines] the server answered
    tried,      \* proxy: history: what each proxy asked so far said, in order
    id,         \* idle: the first IP ID, -1 before it was read
    relState

relVars == <<relay, relPc, inbox, replied, tried, id, relState>>

Commands == {"banner", "USER", "PASS", "PORT", "LIST"}
NotAsked == [code |-> 0, lines |-> 0]

RelInit ==
    /\ relay \in {"ftp", "proxy", "idle"}
    /\ relPc = CASE relay = "ftp" -> "connect" [] relay = "proxy" -> "proxies" [] OTHER -> "id1"
    /\ inbox = <<>>
    /\ replied = [c \in Commands |-> NotAsked]
    /\ tried = <<>>
    /\ id = -1
    /\ relState = "none"

RelEnd(s) == relPc' = "done" /\ relState' = s

-----------------------------------------------------------------------------
(* The bounce: each line read answers the command before it, or so the code *)
(* assumes; a reply of several lines is read one line too short.            *)

Codes(c) ==
    CASE c = "banner" -> {220}
      [] c = "USER" -> {230, 331, 530}
      [] c = "PASS" -> {230, 530}
      [] c = "PORT" -> {200, 500}
      [] c = "LIST" -> {150, 226, 425}

\* The command goes out and the server answers in one line or two.
Command(c) ==
    /\ relPc' = c
    /\ \E code \in Codes(c), n \in 1..2 :
          /\ inbox' = Tail(inbox) \o [i \in 1..n |-> code]
          /\ replied' = [replied EXCEPT ![c] = [code |-> code, lines |-> n]]
    /\ UNCHANGED relState

Connect ==
    /\ relPc = "connect"
    /\ \/ RelEnd("filtered") /\ UNCHANGED <<inbox, replied>>
       \/ /\ ~ctxDone
          /\ relPc' = "banner"
          /\ \E n \in 1..2 :
                /\ inbox' = [i \in 1..n |-> 220]
                /\ replied' = [replied EXCEPT !["banner"] = [code |-> 220, lines |-> n]]
          /\ UNCHANGED relState
    /\ UNCHANGED <<relay, tried, id, ctxDone>>

\* Mutant: the server's 200 to PORT is not waited for.
Accepted_Any(line) == TRUE
Accepted(line) == line = 200

\* What the next line leads to.
OnLine(c, line) ==
    CASE c = "banner" -> Command("USER")
      [] c = "USER" /\ line = 331 -> Command("PASS")
      [] c \in {"USER", "PASS"} /\ line = 230 ->
            \/ Command("PORT")
            \* The target has no IPv4 address.
            \/ RelEnd("filtered") /\ UNCHANGED <<inbox, replied>>
      [] c = "PORT" /\ Accepted(line) -> Command("LIST")
      [] c = "LIST" ->
            /\ RelEnd(IF line \in {150, 226} THEN "open" ELSE "closed")
            /\ UNCHANGED <<inbox, replied>>
      [] OTHER -> RelEnd("filtered") /\ UNCHANGED <<inbox, replied>>

ReadFTPResponse ==
    /\ relPc \in Commands
    /\ OnLine(relPc, Head(inbox))
    /\ UNCHANGED <<relay, tried, id, ctxDone>>

\* The line does not come before the deadline of the connection: the error is
\* ignored after LIST, and the empty reply is not one of success.
NoFTPResponse ==
    /\ relPc \in Commands
    /\ RelEnd(IF relPc = "LIST" THEN "closed" ELSE "filtered")
    /\ replied' = [replied EXCEPT ![relPc] = IF Len(inbox) = @.lines THEN NotAsked ELSE @]
    /\ UNCHANGED <<relay, inbox, tried, id, ctxDone>>

-----------------------------------------------------------------------------
(* The proxies, one after the other until one reports a connection. *)

\* What they may say: an HTTP proxy's refusal may contain "200" somewhere.
Says(scheme) ==
    CASE scheme = "http" -> {"granted", "refused", "refused, 200 bytes", "error"}
      [] scheme = "socks4" -> {"granted", "refused", "error"}
      [] OTHER -> {"error"}

\* strings.Contains(resp, "200"), resp[1] = 0x5A
Grants == {"granted", "refused, 200 bytes"}

AskProxy ==
    /\ relPc = "proxies"
    /\ ~ctxDone
    /\ Len(tried) < Len(Proxies)
    /\ \E answer \in Says(Proxies[Len(tried) + 1]) :
          /\ tried' = Append(tried, answer)
          /\ IF answer \in Grants THEN RelEnd("open") ELSE UNCHANGED <<relPc, relState>>
    /\ UNCHANGED <<relay, inbox, replied, id, ctxDone>>

NoProxyLeft ==
    /\ relPc = "proxies"
    /\ ctxDone \/ Len(tried) = Len(Proxies)
    /\ RelEnd("filtered")
    /\ UNCHANGED <<relay, inbox, replied, tried, id, ctxDone>>

-----------------------------------------------------------------------------
(* The idle scan.  listenForIPID takes segments of forty bytes and more, for *)
(* it counts on an IP header; IPConn.ReadFrom strips that header, so what is *)
(* left of a reset, twenty bytes, is too short.  A longer segment passes     *)
(* when bytes of its own happen to look like the ports, and yields any ID.   *)

ZombieError ==
    /\ relPc \in {"id1", "id2"}
    /\ RelEnd("filtered")
    /\ UNCHANGED <<relay, inbox, replied, tried, id, ctxDone>>

LongSegment ==
    /\ relPc \in {"id1", "id2"}
    /\ tried' = Append(tried, "long")
    /\ \E new \in 0..(IdSpace - 1) :
          IF relPc = "id1" THEN id' = new /\ relPc' = "forge" /\ UNCHANGED relState
          ELSE /\ UNCHANGED id
               /\ RelEnd(CASE (new - id) % IdSpace = 2 -> "open"
                           [] (new - id) % IdSpace = 1 -> "closed"
                           [] OTHER -> "filtered")
    /\ UNCHANGED <<relay, inbox, replied, ctxDone>>

\* The SYN in the zombie's name.
Forge ==
    /\ relPc = "forge"
    /\ \/ relPc' = "id2" /\ UNCHANGED relState
       \/ RelEnd("filtered")
    /\ UNCHANGED <<relay, inbox, replied, tried, id, ctxDone>>

\* What the scan does by itself, and what needs a line or segment to arrive.
RelStep == Connect \/ NoFTPResponse \/ AskProxy \/ NoProxyLeft \/ ZombieError \/ Forge
RelReply == ReadFTPResponse \/ LongSegment

-----------------------------------------------------------------------------
\* A bounced port is open only if the server took the PORT command and then
\* reported the transfer, however many lines its replies have; it is closed
\* only if the server took the PORT command, and wrongly so only after a reply
\* of several lines.  A port behind proxies is open exactly when the last
\* proxy asked said so and none before it did.  A zombie's resets alone never
\* give a verdict (ftpbounce.go:104-130, proxy.go:21-43, idle_linux.go:128).
RelayVerdict ==
    /\ relay = "ftp" /\ relState \in {"open", "closed"} => replied["PORT"].code = 200
    /\ relay = "ftp" /\ relState = "open" => replied["LIST"].code \in {150, 226}
    /\ relay = "ftp" /\ relState = "closed" /\ replied["LIST"].code \in {150, 226} =>
         \E c \in Commands : replied[c].lines > 1
    /\ relay = "proxy" =>
         /\ (relState = "open") <=> (\E i \in 1..Len(tried) : tried[i] \in Grants)
         /\ \A i \in 1..Len(tried) : tried[i] \in Grants => i = Len(tried)
         /\ relState = "filtered" /\ ~ctxDone => Len(tried) = Len(Proxies)
    /\ relay = "idle" /\ relState \in {"open", "closed"} => tried = <<"long", "long">>
=============================================================================
