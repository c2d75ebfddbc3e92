------------------------------ MODULE HeadUnit ------------------------------
(***************************************************************************)
(* The head-unit relay: headunit.Store between the frontends on            *)
(* /ws/headunit and the phone on BLE.  A frontend reports catalogs; the    *)
(* catalog notifier sends each to the phone in frames; the phone writes    *)
(* commands, which are relayed to the frontends, and request_catalog,      *)
(* which also sends the cached catalog again.                              *)
(*                                                                         *)
(* The n-th catalog reported is the number n, 0 is none; its bytes are     *)
(* <<n, 1>>, <<n, 2>>, ...  The n-th command is the number n.              *)
(***************************************************************************)
EXTENDS Integers, Sequences, SequencesExt

CONSTANTS
  Frontends,          \* connections of the on-device frontend
  Lengths,            \* Lengths[n]: the length of the n-th catalog
  MaxFragmentPayload, \* bytes of a catalog in one frame (180 in the code)
  Capacity,           \* room in a subscriber's channel (4 in the code)
  MaxCommands,        \* bound: commands the phone writes
  MaxRequests         \* bound: how many of them are request_catalog

Catalogs == 1 .. Len(Lengths)

VARIABLES
  reported,   \* catalogs reported so far
  catalog,    \* Store.catalog
  setting,    \* setting[f]: the catalog f's SetCatalog has yet to fan out
  cmdChannel, \* cmdChannel[f]: f's command subscription, NotSubscribed if none
  taken,      \* taken[f]: commands written to f's WebSocket since it connected
  handler,    \* the command handler: "idle", "requesting" or "answering"
  answer,     \* the catalog Catalog() returned to it
  commands,   \* commands handled
  requests,   \* how many of them were request_catalog
  notifier,   \* "starting", "waiting" or "sending"
  channel,    \* the notifier's catalog subscription
  frames,     \* the frames it has yet to write
  assembly,   \* the phone: the payload of the frames taken so far
  expected,   \* the phone: the index of the frame it waits for
  phone,      \* the catalog the phone shows, as bytes
  lossy       \* a send was dropped or a BLE write failed

frontend == <<setting, cmdChannel, taken>>
command == <<handler, answer, commands, requests>>
link == <<notifier, channel, frames>>
screen == <<assembly, expected, phone>>
vars == <<reported, catalog, frontend, command, link, screen, lossy>>

NotSubscribed == <<0>>

Init ==
  /\ reported = 0 /\ catalog = 0
  /\ setting = [f \in Frontends |-> 0]
  /\ cmdChannel = [f \in Frontends |-> NotSubscribed]
  /\ taken = [f \in Frontends |-> <<>>]
  /\ handler = "idle" /\ answer = 0 /\ commands = 0 /\ requests = 0
  /\ notifier = "starting" /\ channel = <<>> /\ frames = <<>>
  /\ assembly = <<>> /\ expected = 0 /\ phone = <<>>
  /\ lossy = FALSE

(***************************************************************************)
(* Catalogs: from a frontend to the notifier's channel                     *)
(***************************************************************************)

\* Finds no room unless the notifier stands by.
FanoutCatalogUnbuffered(n) ==
  /\ channel' = IF notifier = "waiting" /\ channel = <<>> THEN <<n>> ELSE channel
  /\ UNCHANGED lossy

\* fanout's non-blocking send; the notifier is the only catalog subscriber.
FanoutCatalog(n) ==
  IF notifier = "starting" THEN UNCHANGED <<channel, lossy>>
  ELSE /\ channel' = IF Len(channel) < Capacity THEN Append(channel, n) ELSE channel
       /\ lossy' = (lossy \/ Len(channel) = Capacity)

\* The first half of SetCatalog: cache the catalog, under the lock.
SetCatalog(f) ==
  /\ cmdChannel[f] # NotSubscribed /\ setting[f] = 0 /\ reported < Len(Lengths)
  /\ reported' = reported + 1 /\ catalog' = reported + 1
  /\ setting' = [setting EXCEPT ![f] = reported + 1]
  /\ UNCHANGED <<cmdChannel, taken, command, link, screen, lossy>>

\* The second half, without the lock.
SetCatalogNotifies(f) ==
  /\ setting[f] # 0
  /\ FanoutCatalog(setting[f])
  /\ setting' = [setting EXCEPT ![f] = 0]
  /\ UNCHANGED <<reported, catalog, cmdChannel, taken, command, notifier, frames,
                 screen>>

(***************************************************************************)
(* Commands: from the phone to the frontends                               *)
(***************************************************************************)

\* fanout to the frontends that are connected; a full channel drops it.
Relay(n) ==
  cmdChannel' =
    [f \in Frontends |->
       IF cmdChannel[f] = NotSubscribed \/ Len(cmdChannel[f]) = Capacity
       THEN cmdChannel[f] ELSE Append(cmdChannel[f], n)]

Refused == {f \in Frontends :
              cmdChannel[f] # NotSubscribed /\ Len(cmdChannel[f]) = Capacity}

\* Answers request_catalog itself, without relaying it.
HandleRequestUnrelayed ==
  /\ handler = "idle" /\ commands < MaxCommands /\ requests < MaxRequests
  /\ commands' = commands + 1 /\ requests' = requests + 1
  /\ handler' = "requesting"
  /\ UNCHANGED <<reported, catalog, setting, cmdChannel, taken, answer, link,
                 screen, lossy>>

\* HandleCommand of request_catalog: relayed first ...
HandleRequest ==
  /\ handler = "idle" /\ commands < MaxCommands /\ requests < MaxRequests
  /\ commands' = commands + 1 /\ requests' = requests + 1
  /\ Relay(commands + 1) /\ lossy' = (lossy \/ Refused # {})
  /\ handler' = "requesting"
  /\ UNCHANGED <<reported, catalog, setting, taken, answer, link, screen>>

\* ... then Catalog(), if there is one ...
ReadCatalog ==
  /\ handler = "requesting"
  /\ answer' = catalog
  /\ handler' = IF catalog = 0 THEN "idle" ELSE "answering"
  /\ UNCHANGED <<reported, catalog, frontend, commands, requests, link, screen,
                 lossy>>

\* ... and its fanout.
AnswerRequest ==
  /\ handler = "answering"
  /\ FanoutCatalog(answer)
  /\ handler' = "idle"
  /\ UNCHANGED <<reported, catalog, frontend, answer, commands, requests,
                 notifier, frames, screen>>

\* Any other valid command.
HandleCommand ==
  /\ handler = "idle" /\ commands < MaxCommands
  /\ commands' = commands + 1
  /\ Relay(commands + 1) /\ lossy' = (lossy \/ Refused # {})
  /\ UNCHANGED <<reported, catalog, setting, taken, handler, answer, requests,
                 link, screen>>

FrontendConnects(f) ==
  /\ cmdChannel[f] = NotSubscribed
  /\ cmdChannel' = [cmdChannel EXCEPT ![f] = <<>>]
  /\ taken' = [taken EXCEPT ![f] = <<>>]
  /\ UNCHANGED <<reported, catalog, setting, command, link, screen, lossy>>

FrontendTakes(f) ==
  /\ cmdChannel[f] \notin {NotSubscribed, <<>>}
  /\ taken' = [taken EXCEPT ![f] = Append(@, Head(cmdChannel[f]))]
  /\ cmdChannel' = [cmdChannel EXCEPT ![f] = Tail(@)]
  /\ UNCHANGED <<reported, catalog, setting, command, link, screen, lossy>>

\* The handler returns and unsubscribes; a SetCatalog of its reader goroutine
\* still ends.
FrontendLeaves(f) ==
  /\ cmdChannel[f] # NotSubscribed
  /\ cmdChannel' = [cmdChannel EXCEPT ![f] = NotSubscribed]
  /\ UNCHANGED <<reported, catalog, setting, taken, command, link, screen, lossy>>

(***************************************************************************)
(* The catalog notifier and the phone                                      *)
(***************************************************************************)

Bytes(n) == [i \in 1 .. Lengths[n] |-> <<n, i>>]

\* Rounds the number of frames down.
BuildFramesRoundingDown(n) ==
  LET size == Lengths[n]
      count == IF size \div MaxFragmentPayload = 0 THEN 1
               ELSE size \div MaxFragmentPayload
      Lower(a, b) == IF a < b THEN a ELSE b
  IN  [k \in 1 .. count |->
         [index |-> k - 1, count |-> count,
          payload |-> SubSeq(Bytes(n), (k - 1) * MaxFragmentPayload + 1,
                             Lower(k * MaxFragmentPayload, size))]]

BuildFrames(n) ==
  LET size == Lengths[n]
      count == (size + MaxFragmentPayload - 1) \div MaxFragmentPayload
      Lower(a, b) == IF a < b THEN a ELSE b
  IN  [k \in 1 .. count |->
         [index |-> k - 1, count |-> count,
          payload |-> SubSeq(Bytes(n), (k - 1) * MaxFragmentPayload + 1,
                             Lower(k * MaxFragmentPayload, size))]]

NotifierSubscribes ==
  /\ notifier = "starting"
  /\ notifier' = "waiting"
  /\ UNCHANGED <<reported, catalog, frontend, command, channel, frames, screen,
                 lossy>>

NotifierTakes ==
  /\ notifier = "waiting" /\ channel # <<>>
  /\ frames' = BuildFrames(Head(channel))
  /\ channel' = Tail(channel)
  /\ notifier' = "sending"
  /\ UNCHANGED <<reported, catalog, frontend, command, screen, lossy>>

\* The phone "reassembles fragments 0..count-1 in order": a frame 0 starts
\* over, any other frame out of turn is ignored.
PhoneTakes(frame) ==
  LET fits == frame.index \in {0, expected}
      got == (IF frame.index = 0 THEN <<>> ELSE assembly) \o frame.payload
  IN  IF ~fits THEN UNCHANGED screen
      ELSE IF frame.index + 1 = frame.count
      THEN phone' = got /\ assembly' = <<>> /\ expected' = 0
      ELSE assembly' = got /\ expected' = frame.index + 1 /\ UNCHANGED phone

WriteFrame ==
  /\ notifier = "sending" /\ frames # <<>>
  /\ PhoneTakes(Head(frames))
  /\ frames' = Tail(frames)
  /\ UNCHANGED <<reported, catalog, frontend, command, notifier, channel, lossy>>

\* A failed write gives up the rest of the catalog.
WriteFails ==
  /\ notifier = "sending" /\ frames # <<>>
  /\ frames' = <<>> /\ lossy' = TRUE
  /\ UNCHANGED <<reported, catalog, frontend, command, notifier, channel, screen>>

CatalogSent ==
  /\ notifier = "sending" /\ frames = <<>>
  /\ notifier' = "waiting"
  /\ UNCHANGED <<reported, catalog, frontend, command, channel, frames, screen,
                 lossy>>

(***************************************************************************)
(* Specification                                                           *)
(***************************************************************************)

Handler == ReadCatalog \/ AnswerRequest

Notifier == NotifierSubscribes \/ NotifierTakes \/ WriteFrame \/ CatalogSent

Next ==
  \/ \E f \in Frontends :
       \/ SetCatalog(f) \/ SetCatalogNotifies(f)
       \/ FrontendConnects(f) \/ FrontendTakes(f) \/ FrontendLeaves(f)
  \/ HandleRequest \/ HandleCommand \/ Handler
  \/ Notifier \/ WriteFails

Spec == Init /\ [][Next]_vars

\* What has begun goes on: a SetCatalog, a command handler, the notifier.
FairSpec ==
  /\ Spec
  /\ \A f \in Frontends : WF_vars(SetCatalogNotifies(f))
  /\ WF_vars(Handler) /\ WF_vars(Notifier)

(***************************************************************************)
(* Properties                                                              *)
(***************************************************************************)

\* The phone never shows a part of a catalog or a mixture of two, whatever
\* writes fail and however updates follow each other.
PhoneShowsWholeCatalogs ==
  phone # <<>> => \E n \in Catalogs : phone = Bytes(n)

\* A connected frontend gets every command of the phone once and in order,
\* unless it falls Capacity commands behind.
CommandsInOrder ==
  \A f \in Frontends : cmdChannel[f] # NotSubscribed /\ ~lossy =>
    LET stream == taken[f] \o cmdChannel[f] IN
    \A i \in 1 .. Len(stream) - 1 : stream[i + 1] = stream[i] + 1

\* request_catalog is answered: the phone comes to show a catalog at least as
\* new as the one cached when it asked.
RequestIsAnswered ==
  \A n \in Catalogs :
    (handler = "requesting" /\ catalog = n /\ notifier # "starting")
      ~> (lossy \/ \E m \in n .. Len(Lengths) : phone = Bytes(m))

\* Nothing is under way between the cache and the phone.
Quiet ==
  /\ \A f \in Frontends : setting[f] = 0
  /\ handler = "idle" /\ channel = <<>> /\ notifier = "waiting"

\* "Authoritative state always comes back on the catalog characteristic", "on
\* a request_catalog command and whenever the frontend reports a change": with
\* nothing dropped and nothing under way, a phone that was sent a catalog shows
\* the one the head unit has.
PhoneIsCurrent == Quiet /\ ~lossy /\ phone # <<>> => phone = Bytes(catalog)

\* The same as long as the phone has not asked: one frontend's changes do not
\* overtake each other on their way to the phone.
PhoneIsCurrentUnasked == requests = 0 => PhoneIsCurrent
=============================================================================
