---------------------------- MODULE ServiceProbe ----------------------------
(***************************************************************************)
(* GrabBanners (banner.go): the open ports one after the other, for each   *)
(* the probes of the database that fit it, cut by the intensity, and a     *)
(* plain banner grab when none of them matched.  The database is a         *)
(* sequence in the order of its file; what a server says to a probe is     *)
(* "hard" or "soft" when it matches a pattern of that kind, "other" when   *)
(* it matches none.                                                        *)
(***************************************************************************)
EXTENDS Interrupt, Sequences, SequencesExt, FiniteSets

CONSTANTS
    Database,       \* sequence of [name, ports]; the NULL probe lists none
    ExcludePorts,   \* ports the database excludes from version detection
    Intensities     \* the values of opts.VersionIntensity

ASSUME ServiceAssumption == Intensities \subseteq 0..9

VARIABLES
    svPc,
    intensity,
    timing,     \* a timing template was given: nothing else sets opts.Timeout,
                \* which GrabBanners reads without its default of 3 s
    svPorts,    \* open ports still to be examined, the current one first
    probes,     \* probes still to be sent to it
    versions,   \* the result: [port, by]
    said        \* history, in order: [port, by, reply, heard], what a server
                \* sent at once and what of it was read

svVars == <<svPc, intensity, timing, svPorts, probes, versions, said>>

SvInit ==
    /\ svPc = "idle"
    /\ intensity \in Intensities
    /\ timing \in BOOLEAN
    /\ svPorts = <<>>
    /\ probes = <<>>
    /\ versions = <<>>
    /\ said = <<>>

\* The NULL probe first, then those that list the port, in file order.
ProbesForPort(port) ==
    IF port \in ExcludePorts THEN <<>>
    ELSE SelectSeq(Database, LAMBDA p : p.name = "NULL")
         \o SelectSeq(Database, LAMBDA p : p.name # "NULL" /\ port \in p.ports)

\* The probes that GrabBannerWithIntensity keeps of n.
Kept(n) ==
    IF intensity < 9 /\ n > 1 THEN 1 + ((n - 1) * intensity) \div 9 ELSE n

Chosen(port) == LET all == ProbesForPort(port) IN SubSeq(all, 1, Kept(Len(all)))

GrabBanners(ports) ==
    /\ svPc = "idle"
    /\ svPorts' = ports
    /\ svPc' = "port"
    /\ UNCHANGED <<intensity, timing, probes, versions, said, ctxVars>>

\* The head of the loop over the ports; a port without probes gets the plain
\* grab at once.
ExaminePort ==
    /\ svPc = "port"
    /\ IF svPorts = <<>> \/ ctxDone
       THEN svPc' = "done" /\ UNCHANGED probes
       ELSE /\ probes' = Chosen(Head(svPorts))
            /\ svPc' = IF probes' = <<>> THEN "simple" ELSE "probe"
    /\ UNCHANGED <<intensity, timing, svPorts, versions, said, ctxVars>>

NextPort == svPc' = "port" /\ svPorts' = Tail(svPorts)

\* The head of the loop over the probes: the context's end gives up the port.
ProbesOver ==
    /\ svPc = "probe"
    /\ \/ probes = <<>> /\ svPc' = "simple" /\ UNCHANGED svPorts
       \/ probes # <<>> /\ ctxDone /\ NextPort
    /\ UNCHANGED <<intensity, timing, probes, versions, said, ctxVars>>

CheckProbe ==
    /\ svPc = "probe"
    /\ probes # <<>>
    /\ ~ctxDone
    /\ svPc' = "dial"
    /\ UNCHANGED <<intensity, timing, svPorts, probes, versions, said, ctxVars>>

Plain == "banner"       \* what grabBannerSimple finds

\* sendProbe or grabBannerSimple connects; DialContext fails once the context
\* has ended, and a failure leads to the next probe or, after the plain grab,
\* to the next port.
Dial ==
    LET by == IF svPc = "simple" THEN Plain ELSE Head(probes).name IN
    /\ svPc \in {"dial", "simple"}
    /\ probes' = IF svPc = "simple" THEN probes ELSE Tail(probes)
    /\ \/ /\ IF svPc = "simple" THEN NextPort ELSE svPc' = "probe" /\ UNCHANGED svPorts
          /\ UNCHANGED said
       \/ /\ ~ctxDone
          /\ svPc' = "sent"
          /\ said' = Append(said, [port |-> Head(svPorts), by |-> by,
                                   reply |-> "nothing", heard |-> "nothing"])
          /\ UNCHANGED svPorts
    /\ UNCHANGED <<intensity, timing, versions, ctxVars>>

\* Mutant: whatever a probe brings back is taken for a match.
Decides_Any(by, heard) == heard # "nothing"

\* The answers that yield a version and end the search for their port: hard
\* matches are tried first, but sendProbe returns a soft one as well, although
\* the comment on it (banner.go:189) is to "keep trying other probes"; the
\* plain grab takes whatever is said.
Decides(by, heard) ==
    IF by = Plain THEN heard # "nothing" ELSE heard \in {"hard", "soft"}

\* What the server may send at once: to a probe that was not sent, nothing.
Replies(by) ==
    CASE by = Plain -> {"other", "nothing"}
      [] by # Plain /\ (by = "NULL" \/ timing) -> {"hard", "soft", "other", "nothing"}
      [] OTHER -> {"nothing"}

\* The probe is sent and its answer read.  With a Timeout of zero the deadline
\* of both has passed already: nothing is sent, nothing read.
Ask ==
    LET asked == said[Len(said)] IN
    /\ svPc = "sent"
    /\ Sends
    /\ \E reply \in Replies(asked.by) :
          LET heard == IF timing THEN reply ELSE "nothing" IN
          /\ said' = [said EXCEPT ![Len(said)] = [asked EXCEPT !.reply = reply, !.heard = heard]]
          /\ versions' = IF Decides(asked.by, heard)
                         THEN Append(versions, [port |-> asked.port, by |-> asked.by])
                         ELSE versions
          /\ IF Decides(asked.by, heard) \/ asked.by = Plain
             THEN NextPort
             ELSE svPc' = "probe" /\ UNCHANGED svPorts
    /\ UNCHANGED <<intensity, timing, probes>>

SvStep == ExaminePort \/ ProbesOver \/ CheckProbe \/ Dial \/ Ask

-----------------------------------------------------------------------------
\* The answers a version may rest on, and the version it is then.
Fits(answer) ==
    \/ answer.heard \in {"hard", "soft"}
    \/ answer.by = Plain /\ answer.heard # "nothing"
VersionOf(answer) == [port |-> answer.port, by |-> answer.by]

\* What GrabBanners reports rests on what the servers said: a port has at most
\* one version, and it has one when something was read from its server that
\* matched, or the plain grab read anything; the versions are of such answers,
\* in their order.  A hard match is reported and is the last word on its port.
\* No port, silent or refusing, ends the examination of those behind it: only
\* the context does (banner.go:65-80, :93-113, :155-206).  Nothing is said of
\* further probes after a soft match, on which banner.go:189 and the code
\* disagree.
VersionsMatch ==
    /\ \A k, l \in 1..Len(versions) :
          /\ versions[k].port = versions[l].port => k = l
          /\ k =< l => \E i, j \in 1..Len(said) :
                /\ i =< j /\ Fits(said[i]) /\ Fits(said[j])
                /\ versions[k] = VersionOf(said[i]) /\ versions[l] = VersionOf(said[j])
    /\ \A i \in 1..Len(said) : Fits(said[i]) => \E v \in ToSet(versions) : v.port = said[i].port
    /\ \A i \in 1..Len(said) : said[i].heard = "hard" =>
          /\ VersionOf(said[i]) \in ToSet(versions)
          /\ \A j \in (i + 1)..Len(said) : said[j].port # said[i].port
    /\ svPc = "done" /\ svPorts # <<>> => ctxDone

\* README.md:64 shows "gomap -V example.com", and scan.go:27 calls Timeout "the
\* per-port connection timeout (default 3s)": a server that answers a probe at
\* once with something the database knows gets its version reported.
AnswerGivesVersion ==
    \A i \in 1..Len(said) :
        said[i].reply = "hard" => \E v \in ToSet(versions) : v.port = said[i].port
=============================================================================
