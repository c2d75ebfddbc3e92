---------------------------- MODULE MCCompanion ----------------------------
(***************************************************************************)
(* The companion phone's side of the agent for TLC, in one run: the two    *)
(* image stores, the feeds of their listeners and the head-unit relay.     *)
(* They share the radio and the web server but no state, so in a behaviour *)
(* one part moves and the others stay as they start.  Of the three images  *)
(* the phone may send, a and b fit NowPlaying's limits and huge does not.  *)
(***************************************************************************)
EXTENDS NowPlaying

CONSTANTS a, b, huge

MCImages == {a, b, huge}
MCLengths ==
  [i \in Images |-> CASE i = a -> <<2, 1, 1>> [] i = b -> <<1>> [] OTHER -> <<5, 2>>]

CONSTANTS
  Writers, Listeners, MaxChanges,             \* SnapshotFeed's
  Frontends, CatalogLengths, MaxFragmentPayload,
  MaxCommands, MaxRequests,                   \* HeadUnit's
  Capacity                                    \* of every subscriber's channel

MCCatalogLengths == <<3, 2, 5>>

ASSUME RelaysAssumption ==
  /\ Capacity \in Nat \ {0} /\ MaxChanges \in Nat
  /\ CatalogLengths \in Seq(Nat \ {0}) /\ MaxFragmentPayload \in Nat \ {0}
  /\ MaxCommands \in Nat /\ MaxRequests \in Nat

VARIABLES
  part,  \* the part that moves: "music", "maps", "feeds" or "head unit"
  nav, iconID, icon, iconTransfer, navPublished, iconsInFlight, mapsPatient,
  feed, store, subs, channel, writer, message, targets, listener, joined, seen,
  pushed, dropped,
  reported, catalog, setting, cmdChannel, taken, handler, answer, commands,
  requests, notifier, catalogChannel, frames, assembly, expected, phone, lossy

maps == <<nav, iconID, icon, iconTransfer, navPublished, iconsInFlight, mapsPatient>>
feeds == <<feed, store, subs, channel, writer, message, targets, listener, joined,
           seen, pushed, dropped>>
relay == <<reported, catalog, setting, cmdChannel, taken, handler, answer, commands,
           requests, notifier, catalogChannel, frames, assembly, expected, phone, lossy>>

Maps == INSTANCE Navigation WITH
          transfer <- iconTransfer, published <- navPublished,
          inFlight <- iconsInFlight, patient <- mapsPatient
Feeds == INSTANCE SnapshotFeed
HeadUnits == INSTANCE HeadUnit WITH
           Lengths <- CatalogLengths, channel <- catalogChannel

MCInit ==
  /\ part \in {"music", "maps", "feeds", "head unit"}
  /\ Init /\ Maps!Init /\ Feeds!Init /\ HeadUnits!Init
  /\ part # "music" => ~patient
  /\ part # "maps" => ~mapsPatient
  /\ part # "feeds" => feed = "state"

MusicNext == part = "music" /\ Next /\ UNCHANGED <<part, maps, feeds, relay>>
MapsNext == part = "maps" /\ Maps!Next /\ UNCHANGED <<part, vars, feeds, relay>>
FeedsNext == part = "feeds" /\ Feeds!Next /\ UNCHANGED <<part, vars, maps, relay>>
RelayNext == part = "head unit" /\ HeadUnits!Next /\ UNCHANGED <<part, vars, maps, feeds>>

MCSpec ==
  MCInit /\ [][MusicNext \/ MapsNext \/ FeedsNext \/ RelayNext]_<<part, vars, maps, feeds, relay>>

\* The fairness of SnapshotFeed and HeadUnit, of the part that moves.
MCFairSpec ==
  /\ MCSpec
  /\ \A w \in Writers : WF_feeds(part = "feeds" /\ Feeds!WriterGoesOn(w))
  /\ \A l \in Listeners : WF_feeds(part = "feeds" /\ Feeds!Receive(l))
  /\ \A f \in Frontends : WF_relay(part = "head unit" /\ HeadUnits!SetCatalogNotifies(f))
  /\ WF_relay(part = "head unit" /\ HeadUnits!Handler)
  /\ WF_relay(part = "head unit" /\ HeadUnits!Notifier)

\* The maneuver icon reported is the one the turn refers to, whole.
ReportedIconIsTheTurns == Maps!ReportedIconIsTheTurns

\* The icon store implements the abstract image store.
ShowsWholeIcons == Maps!ShowsWholeImages

\* A subscriber gets every change once and in order.
NothingSkipped == Feeds!NothingSkipped

\* An alert reaches those who were connected, no one else.
OnlyWhileConnected == Feeds!OnlyWhileConnected

\* The last change reaches everyone who listens.
LastChangeArrives == Feeds!LastChangeArrives

\* The phone never shows a part of a catalog or a mixture.
PhoneShowsWholeCatalogs == HeadUnits!PhoneShowsWholeCatalogs

\* A frontend gets the phone's commands once and in order.
CommandsInOrder == HeadUnits!CommandsInOrder

\* A phone that has not asked shows the newest catalog.
PhoneIsCurrentUnasked == HeadUnits!PhoneIsCurrentUnasked

\* A request_catalog is answered.
RequestIsAnswered == HeadUnits!RequestIsAnswered
=============================================================================
