---------------------------- MODULE CTLogScanner ----------------------------
(***************************************************************************)
(* The certificate scanner of the discovery service: it keeps a WebSocket  *)
(* to Certstream open and hands over the domains of each certificate.  A   *)
(* lost connection is tried again after 1, 2, 4, ... seconds, up to 60.    *)
(***************************************************************************)
EXTENDS Integers, Sequences, Selection

CONSTANTS
    Hosts,            \* what a certificate may name ...
    Public,           \* ... and what of that _should_skip lets pass
    Certificates,     \* set of sequences of Hosts: the messages
    MaxHosts,         \* MAX_DOMAINS_PER_CERT
    MaxWait,          \* the longest wait between two attempts: 60
    MaxRefusals,      \* bound: the count of refusals in a row stops there
    MaxMessages,      \* bound: certificates
    MaxUpsets         \* bound: failing calls and crashes of all watchers together

ScannerAssumption ==
    /\ Public \subseteq Hosts /\ Certificates \subseteq Seq(Hosts)
    /\ MaxHosts \in Nat /\ MaxWait \in Nat \ {0}
    /\ MaxRefusals \in Nat \ {0} /\ 2 ^ (MaxRefusals - 1) >= MaxWait
    /\ MaxMessages \in Nat /\ MaxUpsets \in Nat

VARIABLES
    scanner,   \* _connect_with_retry: [pc, running, backoff]
    pending,   \* the domains of the present certificate still to be handed over
    refusals,  \* history: attempts since a connection was last open, 0 to begin with
    certified, \* history: domains handed over
    messages,
    upsets

scannerVars == <<scanner, pending, refusals, certified, messages, upsets>>

-----------------------------------------------------------------------------
Scanner(pc, running, backoff) == [pc |-> pc, running |-> running, backoff |-> backoff]
Become(pc) == scanner' = Scanner(pc, scanner.running, scanner.backoff)
At(pc) == scanner.pc = pc
Least(a, b) == IF a < b THEN a ELSE b

Upset == /\ upsets < MaxUpsets
         /\ upsets' = upsets + 1
CallSucceeds == UNCHANGED upsets

\* The hosts of a certificate that are handed over: the list is cut first.
HostsOf(certificate) ==
    Picked(certificate, {i \in 1..Least(Len(certificate), MaxHosts) : certificate[i] \in Public})

-----------------------------------------------------------------------------
InitScanner ==
    /\ scanner = Scanner("off", FALSE, 1)
    /\ pending = <<>> /\ refusals = 0
    /\ certified = {} /\ messages = 0
    /\ upsets = 0

BeginScanner ==
    /\ scanner' = Scanner("connect", TRUE, 1) /\ refusals' = 0
    /\ UNCHANGED <<pending, certified, messages>>

\* The task is cancelled because the process ends, or the process dies.
CancelScanner ==
    /\ scanner' = Scanner("off", FALSE, 1) /\ pending' = <<>> /\ refusals' = 0
    /\ UNCHANGED <<certified, messages>>

\* CTLogScanner.stop: the loop learns of it when it looks.
StopScanner ==
    /\ scanner' = Scanner(scanner.pc, FALSE, scanner.backoff)
    /\ UNCHANGED <<pending, refusals, certified, messages>>

\* Mutant of Connect: the wait is not set back.
ConnectKeepsBackoff ==
    /\ At("connect")
    /\ \/ Become("stream") /\ refusals' = 0
       \/ Become("closed") /\ UNCHANGED refusals
    /\ UNCHANGED <<pending, certified, messages, upsets>>

\* An attempt succeeds, or is refused; every exception is caught.  Certstream
\* may refuse as often as it likes.
Connect ==
    /\ At("connect")
    /\ \/ scanner' = Scanner("stream", scanner.running, 1) /\ refusals' = 0
       \/ Become("closed") /\ UNCHANGED refusals
    /\ UNCHANGED <<pending, certified, messages, upsets>>

\* The connection ends.
Disconnect ==
    /\ At("stream") /\ pending = <<>>
    /\ Become("closed")
    /\ UNCHANGED <<pending, refusals, certified, messages, upsets>>

\* _stream gets a message, and looks whether to go on.
Receive(certificate) ==
    /\ At("stream") /\ pending = <<>> /\ messages < MaxMessages
    /\ messages' = messages + 1
    /\ IF scanner.running
       THEN pending' = HostsOf(certificate) /\ UNCHANGED scanner
       ELSE Become("closed") /\ UNCHANGED pending
    /\ UNCHANGED <<refusals, certified, upsets>>

\* on_url_found for the next host; an exception drops the rest of the message
\* and leaves the connection open.
Discover ==
    /\ At("stream") /\ pending # <<>>
    /\ \/ CallSucceeds /\ certified' = certified \cup {Head(pending)} /\ pending' = Tail(pending)
       \/ Upset /\ pending' = <<>> /\ UNCHANGED certified
    /\ UNCHANGED <<scanner, refusals, messages>>

\* After a connection: the end, or the wait, which counts for the next one.
Sleep ==
    /\ At("closed")
    /\ IF scanner.running
       THEN Become("sleep") /\ refusals' = Least(refusals + 1, MaxRefusals)
       ELSE Become("ended") /\ UNCHANGED refusals
    /\ UNCHANGED <<pending, certified, messages, upsets>>

Wake ==
    /\ At("sleep")
    /\ scanner' = Scanner(IF scanner.running THEN "connect" ELSE "ended", scanner.running,
                          Least(2 * scanner.backoff, MaxWait))
    /\ UNCHANGED <<pending, refusals, certified, messages, upsets>>

ScannerSteps == Connect \/ Discover \/ Sleep \/ Wake
ScannerWorld == Disconnect \/ \E certificate \in Certificates : Receive(certificate)
ScannerNext == ScannerSteps \/ ScannerWorld


-----------------------------------------------------------------------------
\* Every variable has its type.
ScannerTypeOK ==
    /\ scanner \in [pc : {"off", "connect", "stream", "closed", "sleep", "ended"}, running : BOOLEAN,
                    backoff : 1..MaxWait]
    /\ pending \in Seq(Public) /\ refusals \in 0..MaxRefusals
    /\ certified \subseteq Public /\ messages \in 0..MaxMessages
    /\ upsets \in 0..MaxUpsets

\* The n-th wait in a row is 2^(n-1) seconds and never above the limit, however
\* connections, crashes and failing certificates alternate (ct_logs.py:112,
\* "1s -> 2s -> 4s -> ... -> 60s max").
BackoffFollowsRefusals ==
    At("sleep") => scanner.backoff = Least(2 ^ (refusals - 1), MaxWait)
=============================================================================
