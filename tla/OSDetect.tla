------------------------------ MODULE OSDetect ------------------------------
(***************************************************************************)
(* DetectOS (osdetect.go) and the round of probes it repeats               *)
(* (osdetect_linux.go).  What a round shows is abstracted to the matches   *)
(* its fingerprint has in the database: how many reach the threshold and   *)
(* whether the first of them, the most accurate, is perfect.               *)
(***************************************************************************)
EXTENDS Interrupt, Sequences

CONSTANTS
    MaxOSTries,     \* opts.MaxOSTries; 0 for the default of one try
    SynProbes,      \* 6: the probes of the open port, the context read before each
    ClosedProbes,   \* 3: T5 to T7, to the closed port, sent without that look
    MaxMatches      \* MatchOS returns at most ten

ASSUME OSAssumption ==
    MaxOSTries \in Nat /\ SynProbes \in Nat \ {0} /\ ClosedProbes \in Nat /\ MaxMatches \in Nat

VARIABLES
    osPc,
    closedPort,     \* a closed port was found to probe
    probe,          \* the probes sent in this round
    rounds,         \* the fingerprints of the rounds that ended, in order
    attempt,
    best,           \* bestMatches; no matches at first
    shown,          \* bestFP: the index of its round, 0 for nil
    osErr

osVars == <<osPc, closedPort, probe, rounds, attempt, best, shown, osErr>>

Fingerprints ==
    {f \in [matches : 0..MaxMatches, perfect : BOOLEAN] : f.perfect => f.matches > 0}
None == [matches |-> 0, perfect |-> FALSE]

maxTries == IF MaxOSTries > 0 THEN MaxOSTries ELSE 1
RoundLength == SynProbes + (IF closedPort THEN ClosedProbes ELSE 0)

OSInit ==
    /\ osPc = "idle"
    /\ closedPort = FALSE
    /\ probe = 0
    /\ rounds = <<>>
    /\ attempt = 0
    /\ best = None
    /\ shown = 0
    /\ osErr = "nil"

\* The call; no local address, no privileges or no such host end it.
DetectOS(closed) ==
    /\ osPc = "idle"
    /\ closedPort' = closed
    /\ \/ osPc' = "attempt" /\ UNCHANGED osErr
       \/ osPc' = "done" /\ osErr' = "refused"
    /\ UNCHANGED <<probe, rounds, attempt, best, shown, ctxVars>>

\* The head of the loop: `break` when the context has ended.
Attempt ==
    /\ osPc = "attempt"
    /\ osPc' = IF attempt < maxTries /\ ~ctxDone THEN "check" ELSE "done"
    /\ probe' = 0
    /\ UNCHANGED <<closedPort, rounds, attempt, best, shown, osErr, ctxVars>>

\* sendOSProbes fails, for the context and nothing else.
RoundFails ==
    /\ osPc = "check"
    /\ probe < SynProbes
    /\ ctxDone
    /\ IF attempt = maxTries - 1
       THEN osPc' = "done" /\ osErr' = "probe failed"
       ELSE osPc' = "attempt" /\ UNCHANGED osErr
    /\ attempt' = attempt + 1
    /\ UNCHANGED <<closedPort, probe, rounds, best, shown, ctxVars>>

\* Mutant: a round that has begun is carried through.
CheckRound_Never ==
    /\ osPc = "check"
    /\ osPc' = "send"
    /\ UNCHANGED <<closedPort, probe, rounds, attempt, best, shown, osErr, ctxVars>>

CheckRound ==
    /\ osPc = "check"
    /\ probe < SynProbes => ~ctxDone
    /\ osPc' = "send"
    /\ UNCHANGED <<closedPort, probe, rounds, attempt, best, shown, osErr, ctxVars>>

\* One probe and its answer, if any; the last one completes the fingerprint.
SendOSProbe ==
    /\ osPc = "send"
    /\ Sends
    /\ probe' = probe + 1
    /\ osPc' = IF probe + 1 = RoundLength THEN "match" ELSE "check"
    /\ UNCHANGED <<closedPort, rounds, attempt, best, shown, osErr>>

\* Mutant: the latest round replaces the best one.
Better_Latest(f) == TRUE

\* `len(matches) > len(bestMatches)`
Better(f) == f.matches > best.matches

\* The database may be missing; then the round has no matches.
Match ==
    /\ osPc = "match"
    /\ \E f \in Fingerprints :
          /\ rounds' = Append(rounds, f)
          /\ shown' = Len(rounds) + 1
          /\ best' = IF Better(f) THEN f ELSE best
          /\ osPc' = IF f.perfect THEN "done" ELSE "attempt"
    /\ attempt' = attempt + 1
    /\ UNCHANGED <<closedPort, probe, osErr, ctxVars>>

OSStep == Attempt \/ RoundFails \/ CheckRound \/ SendOSProbe \/ Match

-----------------------------------------------------------------------------
\* What DetectOS returns is what the first of the rounds with the most
\* matches found; only the context's end or a perfect match, which is the
\* last round then, leaves tries unused; and a call that fails after a round
\* has answered was interrupted in its last try (osdetect.go:194-253).
BestRoundKept ==
    /\ \A i \in 1..Len(rounds) : rounds[i].matches =< best.matches
    /\ best # None =>
         \E i \in 1..Len(rounds) :
            /\ best = rounds[i]
            /\ \A j \in 1..(i - 1) : rounds[j].matches < best.matches
    /\ \A i \in 1..Len(rounds) : rounds[i].perfect => i = Len(rounds) /\ osPc = "done"
    /\ osPc = "done" /\ osErr = "nil" =>
         \/ Len(rounds) = maxTries
         \/ ctxDone
         \/ rounds # <<>> /\ rounds[Len(rounds)].perfect
    /\ osErr = "probe failed" => ctxDone /\ Len(rounds) < maxTries
=============================================================================
