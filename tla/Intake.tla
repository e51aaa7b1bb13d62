------------------------------- MODULE Intake -------------------------------
(***************************************************************************)
(* One run of the ingest-url handler (server/src/runtime.ts): the URL is   *)
(* checked, its host resolved and the addresses checked (core/src/         *)
(* ingestion/ssrf.ts), the page fetched from these addresses (server/src/  *)
(* ingest/fetch-pinned.ts), read up to a cap (read-capped.ts) and stored.  *)
(* The web server sends, stalls and fails as it likes; what the handler    *)
(* does with its job is in Ingestion.                                      *)
(*                                                                         *)
(* Bytes are counted in units; Cap stands for MAX_INGEST_BYTES.            *)
(***************************************************************************)
EXTENDS Naturals, Sequences, SequencesExt, FiniteSets

CONSTANTS
  Hosts,     \* hosts that URLs name and addresses, see Host
  Urls,      \* URLs that may be posted, see Url
  Answers,   \* what the resolver may answer: sequences of hosts
  Cap,       \* units a page may have
  Buffer,    \* units the transport holds for a reader that does not read
  MaxBody,   \* bound: units a web server sends
  Nowhere    \* not connected

\* What isBlockedHost tells apart.  A reserved name is one of BLOCKED_HOSTS
\* or ends in .local or .internal; a and b are the first two octets of an
\* IPv4 address, mapped into IPv6 or not.
Host == [form : {"name", "reserved", "v4", "mapped", "v6", "v6local"},
         a : 0..255, b : 0..255]

Url == [parses : BOOLEAN, web : BOOLEAN, host : Hosts]

ASSUME IntakeConstants ==
  /\ Hosts \subseteq Host
  /\ Urls \subseteq Url
  /\ Answers \subseteq Seq(Hosts)
  /\ Nowhere \notin Hosts
  /\ Cap \in Nat /\ Buffer \in Nat \ {0} /\ MaxBody \in Nat

VARIABLES
  url,      \* payload.url
  at,       \* where the handler stands
  records,  \* the addresses resolveSafeIngestAddresses returned
  peer,     \* the address connected to
  timer,    \* AbortSignal.timeout: "off", "on", "fired"
  response, \* status and declared length
  sent,     \* units the web server sent
  ended,    \* it has sent all of the page
  broken,   \* the connection failed or was aborted
  total,    \* units read
  stored,   \* the page is in the store
  run       \* status of the run

intakeVars == <<url, at, records, peer, timer, response, sent, ended, broken, total, stored, run>>

IntakeStart(urls) ==
  /\ url \in urls
  /\ at = "check"
  /\ records = <<>>
  /\ peer = Nowhere
  /\ timer = "off"
  /\ response = [ok |-> FALSE, declared |-> 0]
  /\ sent = 0 /\ total = 0
  /\ ended = FALSE /\ broken = FALSE /\ stored = FALSE
  /\ run = "running"

IntakeInit == IntakeStart(Urls)

(***************************************************************************)
(* Checks.                                                                 *)
(***************************************************************************)
isPrivateIpv4(h) ==
  \/ h.a \in {10, 127}
  \/ h.a = 172 /\ h.b \in 16..31
  \/ h.a = 192 /\ h.b = 168
  \/ h.a = 169 /\ h.b = 254

isBlockedHost(h) ==
  \/ h.form \in {"reserved", "v6local"}
  \/ h.form \in {"v4", "mapped"} /\ isPrivateIpv4(h)

\* assertSafeIngestionUrl
SafeUrl(u) == u.parses /\ u.web /\ ~isBlockedHost(u.host)

\* assertSafeResolvedAddresses
SafeAddresses(rs) == rs # <<>> /\ \A i \in DOMAIN rs : ~isBlockedHost(rs[i])

\* Slip: the timer covers the headers only.
SlipHeadersOnly == at = "connect"

\* The lookup of the dispatcher answers the records that were checked.
Pinned == ToSet(records)

\* AbortSignal.timeout runs on while the body is read.
Abortable == at \in {"connect", "close", "status", "read"}

Whole == ended /\ ~broken

TooLarge(n) == total + n > Cap

(***************************************************************************)
(* The handler.                                                            *)
(***************************************************************************)
Goto(there) == at' = there
Quits == at' = "fail"
\* The connection is what the web server and the timer change.
wire == <<timer, sent, ended, broken>>

CheckUrl ==
  /\ at = "check"
  /\ IF SafeUrl(url) THEN Goto("lookup") ELSE Quits
  /\ UNCHANGED <<url, records, peer, response, total, stored, run, wire>>

\* resolveSafeIngestAddresses: no answer is the resolver's error.
Resolve ==
  /\ at = "lookup"
  /\ \E rs \in Answers :
       IF SafeAddresses(rs)
       THEN records' = rs /\ Goto("connect") /\ timer' = "on"
       ELSE Quits /\ UNCHANGED <<records, timer>>
  /\ UNCHANGED <<url, peer, response, sent, ended, broken, total, stored, run>>

Connect ==
  /\ at = "connect"
  /\ peer = Nowhere
  /\ ~broken
  /\ peer' \in Pinned
  /\ UNCHANGED <<url, at, records, response, total, stored, run, wire>>

\* The headers, or a redirect, which is an error.
Respond ==
  /\ at = "connect"
  /\ peer # Nowhere
  /\ ~broken
  /\ \/ /\ response' \in [ok : BOOLEAN, declared : 0..(Cap + 1)]
        /\ Goto("close")
     \/ Quits /\ UNCHANGED response
  /\ UNCHANGED <<url, records, peer, total, stored, run, wire>>

\* fetch rejects.
ConnectFails ==
  /\ at = "connect"
  /\ broken
  /\ Quits
  /\ UNCHANGED <<url, records, peer, response, total, stored, run, wire>>

\* dispatcher.close() waits for the answer in flight, body included, while
\* nobody reads it.
Close ==
  /\ at = "close"
  /\ ended \/ broken
  /\ Goto("status")
  /\ UNCHANGED <<url, records, peer, response, total, stored, run, wire>>

\* response.ok, then the declared length; 0 is none.
CheckStatus ==
  /\ at = "status"
  /\ IF response.ok /\ response.declared <= Cap THEN Goto("read") ELSE Quits
  /\ UNCHANGED <<url, records, peer, response, total, stored, run, wire>>

ReadChunk ==
  /\ at = "read"
  /\ ~broken
  /\ \E n \in 1..(sent - total) :
       IF TooLarge(n) THEN Quits /\ UNCHANGED total
                      ELSE total' = total + n /\ UNCHANGED at
  /\ UNCHANGED <<url, records, peer, response, stored, run, wire>>

ReadEnds ==
  /\ at = "read"
  /\ total = sent
  /\ Whole
  /\ Goto("store")
  /\ UNCHANGED <<url, records, peer, response, total, stored, run, wire>>

ReadFails ==
  /\ at = "read"
  /\ broken
  /\ ~Whole
  /\ Quits
  /\ UNCHANGED <<url, records, peer, response, total, stored, run, wire>>

\* parseMarkdownDocument caps the text again: decoding may make of a byte
\* three.  The segments go in with one transaction.
StorePage ==
  /\ at = "store"
  /\ \E bytes \in 0..(3 * total) :
       IF bytes > Cap THEN Quits /\ UNCHANGED <<stored, run>>
                      ELSE stored' = TRUE /\ run' = "succeeded" /\ Goto("done")
  /\ UNCHANGED <<url, records, peer, response, total, wire>>

Fail ==
  /\ at = "fail"
  /\ run' = "failed"
  /\ Goto("done")
  /\ UNCHANGED <<url, records, peer, response, total, stored, wire>>

Handler ==
  \/ CheckUrl \/ Resolve \/ ConnectFails \/ Close \/ CheckStatus
  \/ ReadChunk \/ ReadEnds \/ ReadFails \/ StorePage \/ Fail

(***************************************************************************)
(* The timer and the web server.                                           *)
(***************************************************************************)
handlerVars == <<url, at, records, peer, response, total, stored, run>>

Abort ==
  /\ timer = "on"
  /\ timer' = "fired"
  /\ broken' = (broken \/ Abortable)
  /\ UNCHANGED <<sent, ended, handlerVars>>

Streaming == at \in {"close", "status", "read"} /\ ~ended /\ ~broken

Send ==
  /\ Streaming
  /\ sent < MaxBody
  /\ sent - total < Buffer
  /\ sent' = sent + 1
  /\ UNCHANGED <<timer, ended, broken, handlerVars>>

End ==
  /\ Streaming
  /\ ended' = TRUE
  /\ UNCHANGED <<timer, sent, broken, handlerVars>>

Break ==
  /\ at = "connect" \/ Streaming
  /\ ~broken
  /\ broken' = TRUE
  /\ UNCHANGED <<timer, sent, ended, handlerVars>>

IntakeNext == Handler \/ Abort \/ Connect \/ Respond \/ Send \/ End \/ Break

\* The process runs, the resolver answers or fails, and the timer fires; the
\* web server owes nothing.
IntakeSpec ==
  /\ IntakeInit /\ [][IntakeNext]_intakeVars
  /\ WF_intakeVars(Handler) /\ WF_intakeVars(Abort)

(***************************************************************************)
(* Properties.                                                             *)
(***************************************************************************)
\* What the run may have stored: a page that came whole, within the cap,
\* from an address that was checked and is not blocked, of a URL that is
\* not.
SettledWell ==
  /\ run \in {"succeeded", "failed"}
  /\ stored <=> run = "succeeded"
  /\ stored =>
       /\ SafeUrl(url)
       /\ peer \in ToSet(records) /\ ~isBlockedHost(peer)
       /\ ended /\ ~broken /\ total = sent /\ total <= Cap

\* However the web server behaves, the run is settled and stays so, and it
\* succeeded only if SettledWell: a body that stalls, breaks off or exceeds
\* the cap fails it (fetch-pinned.ts:31 waits for the body to end before
\* any of it is read, so that only the timer ends a body that does not fit
\* in the transport's buffer).
IntakeEnds == <>[]SettledWell
=============================================================================
