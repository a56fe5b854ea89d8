----------------------------- MODULE SwitchMatrix -----------------------------
(***************************************************************************)
(* The scanner: SwitchMatrixVI over the driver of a Keithley 705.  A       *)
(* command of the VI is a sequence of writes to the instrument, and a      *)
(* session that fails leaves a prefix of them executed.                    *)
(***************************************************************************)
EXTENDS Naturals, Sequences, FiniteSets, Ascending

CONSTANTS
  LastChannel,       \* poles -> the number of channels the card then has
  RouteSpecs,        \* route -> its channels, as the configuration lists them
  ConfiguredPoles,   \* the configured pole mode, or 0
  NoRoute

VARIABLES
  swClosed,          \* the channels the instrument has closed
  swPoles,           \* the pole mode of the instrument
  swMode,            \* _pole_mode: the one that initiate() applies, or 0
  swRoute,           \* _active_route
  swHot,             \* _hot_switching
  swLast             \* the last command: its kind, outcome, specs and closed sets

swVars == <<swClosed, swPoles, swMode, swRoute, swHot, swLast>>

Routes == DOMAIN RouteSpecs
PoleModes == DOMAIN LastChannel

\* A route without a channel is refused when the VI is built.
ASSUME SwitchAssumption ==
  /\ LastChannel \in [PoleModes -> Nat] /\ 2 \in PoleModes
  /\ \A r \in Routes : RouteSpecs[r] \in Seq(Nat) /\ RouteSpecs[r] # <<>>

Channels == 1 .. LastChannel[CHOOSE p \in PoleModes : \A q \in PoleModes : LastChannel[p] >= LastChannel[q]]

-----------------------------------------------------------------------------
(* The instrument.  It reports a channel as a padded number, and ignores a  *)
(* channel the card does not have in its pole mode.                         *)

Spec(ch) == [form |-> "configured", number |-> ch]
Readback(ch) == [form |-> "padded", number |-> ch]

\* _spec_key(): two spellings of one channel number compare equal.
SpecKey(spec) == spec.number

Close(ch) == [cmd |-> "close", ch |-> ch]
Open(ch) == [cmd |-> "open", ch |-> ch]
OpenEvery == [cmd |-> "open_all", ch |-> 0]

Written(closed, write) ==
  CASE write.cmd = "close" -> IF write.ch <= LastChannel[swPoles] THEN closed \cup {write.ch} ELSE closed
    [] write.cmd = "open" -> closed \ {write.ch}
    [] write.cmd = "open_all" -> {}

\* What is closed behind each of a sequence of writes, and before the first.
ClosedBehind(writes) ==
  LET Behind[k \in 0 .. Len(writes)] == IF k = 0 THEN swClosed ELSE Written(Behind[k - 1], writes[k])
  IN Behind

-----------------------------------------------------------------------------
(* The VI.                                                                  *)

CurrentlyClosed == {Readback(ch) : ch \in swClosed}

\* (A slip of Stale.)
StaleBySpelling(specs) == {s \in CurrentlyClosed : s \notin {specs[i] : i \in DOMAIN specs}}

Stale(specs) ==
  {s \in CurrentlyClosed : SpecKey(s) \notin {SpecKey(specs[i]) : i \in DOMAIN specs}}

Closes(specs) == [i \in DOMAIN specs |-> Close(specs[i].number)]
Opens(stale) ==
  LET chs == InOrder({s.number : s \in stale})
  IN [i \in DOMAIN chs |-> Open(chs[i])]

\* (A slip of ConnectWrites.)
ConnectWritesOpenFirst(specs) == Opens(Stale(specs)) \o Closes(specs)

\* (A slip of ConnectWrites.)
OpenEveryLate(specs) ==
  IF swHot THEN Closes(specs) \o Opens(Stale(specs))
           ELSE Closes(specs) \o Opens(Stale(specs))

\* _connect_exclusive(): make before break when hot, break before make when cold.
ConnectWrites(specs) ==
  IF swHot THEN Closes(specs) \o Opens(Stale(specs))
           ELSE <<OpenEvery>> \o Closes(specs)

\* A command that is written in full, or up to a write that raises.
Executed(writes, kind, specs, done) ==
  \E k \in 0 .. Len(writes) :
    /\ done <=> k = Len(writes)
    /\ swClosed' = ClosedBehind(writes)[k]
    /\ swLast' = [kind |-> kind, ok |-> done, specs |-> specs,
                  passed |-> [i \in 1 .. k |-> ClosedBehind(writes)[i]]]

Configured(r) == [i \in DOMAIN RouteSpecs[r] |-> Spec(RouteSpecs[r][i])]

SelectRoute(r) ==
  \/ /\ Executed(ConnectWrites(Configured(r)), "connect", Configured(r), TRUE)
     /\ swRoute' = r
     /\ UNCHANGED <<swPoles, swMode, swHot>>
  \/ /\ Executed(ConnectWrites(Configured(r)), "connect", Configured(r), FALSE)
     /\ UNCHANGED <<swPoles, swMode, swHot, swRoute>>

CloseChannel(ch) ==
  \/ /\ Executed(ConnectWrites(<<Spec(ch)>>), "connect", <<Spec(ch)>>, TRUE)
     /\ swRoute' = NoRoute
     /\ UNCHANGED <<swPoles, swMode, swHot>>
  \/ /\ Executed(ConnectWrites(<<Spec(ch)>>), "connect", <<Spec(ch)>>, FALSE)
     /\ UNCHANGED <<swPoles, swMode, swHot, swRoute>>

OpenChannel(ch) ==
  /\ Executed(<<Open(ch)>>, "open", <<>>, TRUE)
  /\ swRoute' = NoRoute
  /\ UNCHANGED <<swPoles, swMode, swHot>>

OpenAll ==
  /\ Executed(<<OpenEvery>>, "open", <<>>, TRUE)
  /\ swRoute' = NoRoute
  /\ UNCHANGED <<swPoles, swMode, swHot>>

Repoled(p) ==
  /\ swClosed' = {}
  /\ swPoles' = p
  /\ swLast' = [kind |-> "poles", ok |-> TRUE, specs |-> <<>>, passed |-> <<{}>>]

\* set_pole_mode() opens through the VI first, and is what initiate() applies from then on;
\* initiate() goes to the driver only and leaves the name of the route behind.
SetPoleMode(p) == Repoled(p) /\ swMode' = p /\ swRoute' = NoRoute /\ UNCHANGED swHot

InitiateSwitch ==
  /\ swMode \in PoleModes
  /\ Repoled(swMode)
  /\ UNCHANGED <<swMode, swRoute, swHot>>

SetHotSwitching(enabled) ==
  /\ swHot' = enabled
  /\ swLast' = [kind |-> "toggle", ok |-> TRUE, specs |-> <<>>, passed |-> <<>>]
  /\ UNCHANGED <<swClosed, swPoles, swMode, swRoute>>

\* A channel closed or opened at the instrument's own front panel.
ByHand(ch) ==
  /\ ch <= LastChannel[swPoles]
  /\ swClosed' = IF ch \in swClosed THEN swClosed \ {ch} ELSE swClosed \cup {ch}
  /\ swLast' = [kind |-> "hand", ok |-> TRUE, specs |-> <<>>, passed |-> <<>>]
  /\ UNCHANGED <<swPoles, swMode, swRoute, swHot>>

SwitchInit ==
  /\ swClosed = {}
  /\ swPoles = 2
  /\ swMode = ConfiguredPoles
  /\ swRoute = NoRoute
  /\ swHot = TRUE
  /\ swLast = [kind |-> "none", ok |-> TRUE, specs |-> <<>>, passed |-> <<>>]

SwitchNext ==
  \/ \E r \in Routes : SelectRoute(r)
  \/ \E ch \in Channels : CloseChannel(ch) \/ OpenChannel(ch) \/ ByHand(ch)
  \/ OpenAll
  \/ \E p \in PoleModes : SetPoleMode(p)
  \/ InitiateSwitch
  \/ \E e \in BOOLEAN : SetHotSwitching(e)

-----------------------------------------------------------------------------
Wanted(last, p) == {ch \in {last.specs[i].number : i \in DOMAIN last.specs} : ch <= LastChannel[p]}

\* However the channels came to be closed, by a route, by a raw channel, by hand or
\* by a command that broke off, a connection that succeeds leaves exactly its own.
ExclusiveMux ==
  [][ swLast'.kind = "connect" /\ swLast'.ok => swClosed' = Wanted(swLast', swPoles) ]_swVars

\* With hot switching no change to channels that the card has passes through an
\* open circuit, not even when it breaks off half-way, so that a live source
\* never runs into its compliance.
MakeBeforeBreak ==
  [][ /\ swLast'.kind = "connect"
      /\ swHot
      /\ swClosed # {}
      /\ \A i \in DOMAIN swLast'.specs : swLast'.specs[i].number <= LastChannel[swPoles]
      => \A k \in DOMAIN swLast'.passed : swLast'.passed[k] # {} ]_swVars

\* Cold switching never has two routes closed at once.
BreakBeforeMake ==
  [][ swLast'.kind = "connect" /\ ~swHot =>
        \A k \in DOMAIN swLast'.passed : swLast'.passed[k] \subseteq Wanted(swLast', swPoles) ]_swVars

\* A change of route ends with the channels of the new one and passes through no state that
\* the switching mode excludes.
RoutesAreExclusive ==
  /\ ExclusiveMux
  /\ MakeBeforeBreak
  /\ BreakBeforeMake
=============================================================================
