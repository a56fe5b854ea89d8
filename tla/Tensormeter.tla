------------------------------- MODULE Tensormeter -------------------------------
(***************************************************************************)
(* The Tensormeter: TensormeterRTM2MeasurementVI over its driver and the   *)
(* instrument behind it.  Either CryoSoft configures the instrument, or an *)
(* external tool does and the VI holds the session only while it measures. *)
(* A command is confirmed by an echo, or by the settings that the          *)
(* instrument reports when there is none.  Once armed the instrument runs  *)
(* freely and stores a row for every averaging window.                     *)
(***************************************************************************)
EXTENDS Naturals, Sequences, SequencesExt

CONSTANTS
  ReadingsPerPoint,
  Averagings,        \* the averaging times, in units of time
  MaxUnread          \* bound on the rows that wait before a point

ASSUME TensormeterAssumption ==
  /\ ReadingsPerPoint \in Nat \ {0}
  /\ Averagings \subseteq Nat \ {0}
  /\ MaxUnread \in Nat

VARIABLES
  tmExternal,        \* _configured_externally
  tmDevice,          \* the settings that the instrument has
  tmAttached,        \* is_attached(): the session is held
  tmHung,            \* the firmware accepts queries and answers nothing
  tmStep,            \* the next command of initiate_measurement(), 0 outside of it
  tmRequest,         \* its averaging time
  tmInitiated,       \* _initiated
  tmAveraging,       \* _averaging_time_s
  tmInRun,           \* the procedure's initiation has succeeded and it has not gone to standby
  tmUnread,          \* rows since the last newd: "old" before the triggers, "fresh" behind them
  tmReading,         \* the rows of the last reading
  tmDriven,          \* the current that is set was set by this VI
  tmStood,           \* standby() has returned since the last initiation
  tmWanted,          \* the settings that the external tool has made
  tmTouched          \* the external tool has changed the averaging since the initiation

tmVars == <<tmExternal, tmDevice, tmAttached, tmHung, tmStep, tmRequest, tmInitiated, tmAveraging, tmInRun,
            tmUnread, tmReading, tmDriven, tmStood, tmWanted, tmTouched>>
tmQuiet == <<tmExternal, tmHung>>

\* current amplitude; the voltage ceiling and the DC setpoints; averaging time.
Settings == [current : {0, 1}, ceiling : BOOLEAN, averaging : Averagings]

-----------------------------------------------------------------------------
(* The driver.                                                              *)

\* (A slip of Confirmed.)
ConfirmedUnread(applied, same) == TRUE

\* _send_and_confirm(): a command that changes nothing has no echo; the settings that are
\* read back decide.
Confirmed(applied, same) == applied \/ same

\* The command s := v reaches the instrument or not; the driver raises unless it is
\* confirmed.  Nothing is confirmed without a session, or by a firmware that hangs.
Sent(s, v, reaches, confirmed) ==
  LET applied == reaches /\ tmAttached /\ ~tmHung
  IN /\ tmDevice' = IF applied THEN [tmDevice EXCEPT ![s] = v] ELSE tmDevice
     /\ confirmed = (tmAttached /\ ~tmHung /\ Confirmed(applied, tmDevice[s] = v))

\* get_idn(): the settings are asked for, and there must be some.
SessionAnswers == tmAttached /\ ~tmHung

-----------------------------------------------------------------------------
(* initiate_measurement() of an instrument that CryoSoft configures.        *)

\* (A slip of InitiationSteps.)
InitiationStepsCurrentFirst == <<"current", "ceiling", "averaging">>

\* The ceiling stands for the control and waveform modes, the DC setpoints and the two
\* voltages, which are all set before the current.
InitiationSteps == <<"ceiling", "averaging", "current">>

ValueOfStep(s) == CASE s = "ceiling" -> TRUE [] s = "averaging" -> tmRequest [] s = "current" -> 1

BeginInitiation(averaging) ==
  /\ ~tmExternal /\ tmStep = 0
  /\ tmStep' = 1 /\ tmRequest' = averaging
  /\ tmStood' = FALSE
  /\ UNCHANGED <<tmQuiet, tmDevice, tmAttached, tmInitiated, tmAveraging, tmInRun, tmUnread, tmReading, tmDriven, tmWanted, tmTouched>>

\* The commands one by one; one that is not confirmed ends the initiation by raising.  The
\* last is followed by clear_data().
InitiationStep(reaches) ==
  /\ tmStep > 0
  /\ LET s == InitiationSteps[tmStep]
         last == tmStep = Len(InitiationSteps)
     IN \E confirmed \in BOOLEAN :
          /\ Sent(s, ValueOfStep(s), reaches, confirmed)
          /\ tmStep' = IF confirmed /\ ~last THEN tmStep + 1 ELSE 0
          /\ tmDriven' = (tmDriven \/ (s = "current" /\ tmDevice'.current = 1))
          /\ IF confirmed /\ last
             THEN /\ tmInitiated' = TRUE /\ tmAveraging' = tmRequest
                  /\ tmUnread' = <<>> /\ tmReading' = <<>>
             ELSE UNCHANGED <<tmInitiated, tmAveraging, tmUnread, tmReading>>
          /\ tmInRun' = (confirmed /\ last)
  /\ UNCHANGED <<tmQuiet, tmAttached, tmRequest, tmStood, tmWanted, tmTouched>>

(* _initiate_measurement_external()                                         *)

\* (A slip of AveragingReadBack.)
AveragingAsAsked(averaging) == averaging

\* The averaging time is the instrument's, not the argument.
AveragingReadBack(averaging) == tmDevice.averaging

\* The session is taken, must answer, and the data path is armed; no drive setting is
\* written.  reacquired: ensure_connected() succeeds.
InitiateExternal(averaging, reacquired) ==
  /\ tmExternal
  /\ tmAttached' = (tmAttached \/ reacquired)
  /\ tmStood' = FALSE
  /\ IF tmAttached' /\ ~tmHung
     THEN /\ tmInitiated' = TRUE /\ tmAveraging' = AveragingReadBack(averaging)
          /\ tmUnread' = <<>> /\ tmReading' = <<>> /\ tmTouched' = FALSE
     ELSE UNCHANGED <<tmInitiated, tmAveraging, tmUnread, tmReading, tmTouched>>
  /\ tmInRun' = (tmAttached' /\ ~tmHung)
  /\ UNCHANGED <<tmQuiet, tmDevice, tmStep, tmRequest, tmDriven, tmWanted>>

-----------------------------------------------------------------------------
(* take_reading()                                                           *)

\* Between two points the instrument goes on.
RunsFreely ==
  /\ tmInitiated /\ tmStep = 0 /\ Len(tmUnread) < MaxUnread
  /\ tmUnread' = Append(tmUnread, "old")
  /\ UNCHANGED <<tmQuiet, tmDevice, tmAttached, tmStep, tmRequest, tmInitiated, tmAveraging, tmInRun, tmReading, tmDriven, tmStood, tmWanted, tmTouched>>

\* (A slip of Selected.)
SelectedFirst(rows) == SubSeq(rows, 1, ReadingsPerPoint)

\* The last rows count: the first may be from before the source had settled.
Selected(rows) ==
  IF Len(rows) <= ReadingsPerPoint THEN rows
  ELSE SubSeq(rows, Len(rows) - ReadingsPerPoint + 1, Len(rows))

\* The triggers leave one window running, and the sleep is for one more window than asked.
TakeRows ==
  /\ tmInRun /\ tmInitiated /\ tmStep = 0 /\ SessionAnswers
  /\ LET windows == (tmAveraging * (ReadingsPerPoint + 1)) \div tmDevice.averaging
     IN tmReading' = Selected(tmUnread \o [i \in 1 .. windows |-> "fresh"])
  /\ tmUnread' = <<>>
  /\ UNCHANGED <<tmQuiet, tmDevice, tmAttached, tmStep, tmRequest, tmInitiated, tmAveraging, tmInRun, tmDriven, tmStood, tmWanted, tmTouched>>

-----------------------------------------------------------------------------
(* Standby and the session.                                                 *)

\* (A slip of StandbyWrites.)
StandbyWritesAlways == TRUE

\* Whether standby() sets the current.
StandbyWrites == ~tmExternal

\* standby(): the current is set to zero, or it raises; behind it the session of an
\* external instrument is released.
TensormeterStandby(reaches) ==
  /\ tmStep = 0
  /\ \E confirmed \in BOOLEAN :
       /\ IF StandbyWrites THEN Sent("current", 0, reaches, confirmed)
          ELSE UNCHANGED tmDevice /\ confirmed = TRUE
       /\ tmInitiated' = (tmInitiated /\ ~confirmed)
       /\ tmStood' = (tmStood \/ confirmed)
       /\ tmInRun' = FALSE
       /\ tmAttached' = (tmAttached /\ ~(tmExternal /\ confirmed))
  /\ tmDriven' = (tmDriven /\ tmDevice'.current = 1)
  /\ UNCHANGED <<tmQuiet, tmStep, tmRequest, tmAveraging, tmUnread, tmReading, tmWanted, tmTouched>>

\* ping(), at any time from the front panel: of an external instrument it takes the
\* session and always releases it.
Ping == /\ tmStep = 0 /\ tmExternal
        /\ tmAttached' = FALSE
        /\ UNCHANGED <<tmQuiet, tmDevice, tmStep, tmRequest, tmInitiated, tmAveraging, tmInRun, tmUnread, tmReading, tmDriven, tmStood, tmWanted, tmTouched>>

\* The external tool sets what it owns, also while the VI measures.
ToolSets(s, v) ==
  /\ tmExternal
  /\ tmDevice' = [tmDevice EXCEPT ![s] = v]
  /\ tmWanted' = [tmWanted EXCEPT ![s] = v]
  /\ tmTouched' = (tmTouched \/ s = "averaging")
  /\ UNCHANGED <<tmQuiet, tmAttached, tmStep, tmRequest, tmInitiated, tmAveraging, tmInRun, tmUnread, tmReading, tmDriven, tmStood>>

\* The firmware hangs, and is power-cycled by somebody.
HangsOrRecovers ==
  /\ tmHung' = ~tmHung
  /\ UNCHANGED <<tmExternal, tmDevice, tmAttached, tmStep, tmRequest, tmInitiated, tmAveraging, tmInRun, tmUnread, tmReading, tmDriven, tmStood, tmWanted, tmTouched>>

TensormeterInit ==
  /\ tmExternal \in BOOLEAN
  /\ tmDevice \in Settings
  /\ tmAttached = ~tmExternal
  /\ tmHung = FALSE /\ tmStep = 0 /\ tmRequest \in Averagings
  /\ tmInitiated = FALSE /\ tmInRun = FALSE /\ tmAveraging \in Averagings
  /\ tmUnread = <<>> /\ tmReading = <<>>
  /\ tmDriven = FALSE /\ tmStood = FALSE
  /\ tmWanted = tmDevice /\ tmTouched = FALSE

TensormeterNext ==
  \/ RunsFreely \/ TakeRows \/ Ping \/ HangsOrRecovers
  \/ \E averaging \in Averagings : BeginInitiation(averaging)
  \/ \E averaging \in Averagings, reacquired \in BOOLEAN : InitiateExternal(averaging, reacquired)
  \/ \E reaches \in BOOLEAN : InitiationStep(reaches) \/ TensormeterStandby(reaches)
  \/ \E averaging \in Averagings : ToolSets("averaging", averaging)
  \/ \E on \in {0, 1} : ToolSets("current", on)

TensormeterSpec == TensormeterInit /\ [][TensormeterNext]_tmVars

-----------------------------------------------------------------------------
\* A standby() that returned has switched the current off, whatever was lost on the way.
StandbyIsZero == ~tmExternal /\ tmStood => tmDevice.current = 0

\* The VI never drives a current without its ceiling, however an initiation is cut short.
DriveIsCapped == tmDriven => tmDevice.ceiling

\* What the external tool has set stays as it set it.
ToolOwnsDrive == tmExternal => tmDevice = tmWanted

\* A reading has rows of its own point only, unless the averaging was changed under it.
ReadingIsSettled == ~tmTouched => "old" \notin ToSet(tmReading)

\* Lost commands and a second user leave the drive current off, capped or the other's, and
\* no row of an earlier point in a reading.
TensormeterIsSound ==
  /\ StandbyIsZero
  /\ DriveIsCapped
  /\ ToolOwnsDrive
  /\ ReadingIsSettled
=============================================================================
