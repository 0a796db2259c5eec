----------------------------- MODULE PulseTrain -----------------------------
(***************************************************************************)
(* PulseStrobe: the strobe pulses of a shot are bits of a buffer that is   *)
(* built once, per club kind, from the configured pauses, and written to   *)
(* the SPI device when the ball is hit.  The rate of the device is chosen  *)
(* when camera 2 is primed, by whoever primes it; which buffer is written, *)
(* by the club of the hit; a simulator may change the club in between.     *)
(* Lengths are counted in bits.                                            *)
(***************************************************************************)
EXTENDS Integers, Sequences, SequencesExt

CONSTANTS
  Settings,  \* configurations: per speed [pauses, on, baud], single (a still picture),
             \* and preImage (kUsePreImageSubtraction)
  BufferBits,\* what a pulse train may be long: 90% of kMaxPulseBufferSize
  None

Speeds == {"fast", "slow"}
Clubs == {"NotSelected", "Driver", "Iron", "Putter"}
Callers == {"FSM", "still"}

\* Two tests that are not each other's negation: the FSM primes for high speed for the
\* driver alone, as stills and calibrations always do; the slow train is the putter's.
RateOf(caller, c) == IF caller = "still" \/ c = "Driver" THEN "fast" ELSE "slow"
TrainOf(c) == IF c = "Putter" THEN "slow" ELSE "fast"

VARIABLES
  setting,   \* the configuration
  gpio,      \* gpio_system_initialized_
  trains,    \* per speed camera_..._pulse_sequence_; None is nullptr
  spi,       \* spiHandle_ and spiOpen_: [handle, baud, open]
  club,      \* the current club
  priming,   \* how far SendCameraPrimingPulses is, None when it does not run
  primed,    \* what camera 2 was last primed for: [caller, club]
  flash      \* the last flash: [shot, club, primed, baud], None when there was none

vars == <<setting, gpio, trains, spi, club, priming, primed, flash>>

Max0(n) == IF n < 0 THEN 0 ELSE n
Least(m, n) == IF m < n THEN m ELSE n

-----------------------------------------------------------------------------
\* A pulse of so many bits after so many zeros, in a pattern of two bytes: bits that
\* do not fit are shifted out.
GetNextTwoPulseBytes(pad, on) == [length |-> Least(on, 16 - pad), remainder |-> 16 - (pad + on)]

\* A mutant: the zeros left in the pulse's own two bytes are not deducted.
NextPulseWithoutRemainder(train, pause, on) ==
  LET bytes == GetNextTwoPulseBytes(train.pad, on)
      off == Max0(pause - on)
  IN  [pulses |-> Append(train.pulses, [start |-> train.length + train.pad, length |-> bytes.length]),
       length |-> train.length + 16 + 8 * (off \div 8), pad |-> off % 8]

NextPulse(train, pause, on) ==
  LET bytes == GetNextTwoPulseBytes(train.pad, on)
      off == Max0((pause - bytes.remainder) - on)
  IN  [pulses |-> Append(train.pulses, [start |-> train.length + train.pad, length |-> bytes.length]),
       length |-> train.length + 16 + 8 * (off \div 8), pad |-> off % 8]

Empty == [pulses |-> <<>>, length |-> 0, pad |-> 0]

\* One pulse before each pause.
PulsesBefore(pauses, on) ==
  FoldLeft(LAMBDA train, pause : NextPulse(train, pause, on), Empty, pauses)

\* For a still picture a single pulse, twice as long.
BuildPulseTrain(speed) ==
  LET train == IF setting.single
                 THEN NextPulse(Empty, 0, Least(15, 2 * setting[speed].on))
                 ELSE PulsesBefore(setting[speed].pauses, setting[speed].on)
  IN  IF train.length > BufferBits THEN None ELSE train.pulses

-----------------------------------------------------------------------------
Closed == [handle |-> FALSE, baud |-> 0, open |-> FALSE]

Init ==
  /\ setting \in Settings /\ club = "NotSelected"
  /\ gpio = FALSE /\ trains = [s \in Speeds |-> None]
  /\ spi = Closed /\ priming = None /\ primed = None /\ flash = None

\* The chip or the pin may be refused; trains too long are refused after they were built.
InitGPIOSystem ==
  /\ ~gpio /\ priming = None
  /\ trains' = [s \in Speeds |-> BuildPulseTrain(s)]
  /\ gpio' = (\A s \in Speeds : trains'[s] # None)
  /\ UNCHANGED <<setting, spi, club, priming, primed, flash>>

DeinitGPIOSystem ==
  /\ gpio /\ priming = None
  /\ gpio' = FALSE
  /\ spi' = IF spi.open THEN [spi EXCEPT !.handle = FALSE, !.open = FALSE] ELSE spi
  /\ UNCHANGED <<setting, trains, club, priming, primed, flash>>

\* A mutant: the device is only closed once the new one is there.
OpenSpiKeepingOld(baud) == spi' \in {[handle |-> TRUE, baud |-> baud, open |-> TRUE], spi}

\* The device is closed and opened at another rate, or cannot be; it counts as open.
OpenSpi(baud) == spi' \in {[handle |-> h, baud |-> baud, open |-> TRUE] : h \in BOOLEAN}

\* First the device is opened for fast pulses, and the pulses that wake camera 2 up
\* are made by the GPIO pin alone.
SendCameraPrimingPulses(caller) ==
  /\ gpio /\ priming = None
  /\ primed' = [caller |-> caller, club |-> club]
  /\ OpenSpi(setting.fast.baud)
  /\ priming' = IF spi'.handle THEN "woken" ELSE None
  /\ UNCHANGED <<setting, gpio, trains, club, flash>>

\* SendCameraStrobeTriggerAndShutter: the train of the club, at the rate of the device.
\* The shutter pin goes up in any case; the result is not looked at.
Strobe(shot) ==
  flash' = IF spi.handle
             THEN [shot |-> shot, club |-> club, primed |-> primed, baud |-> spi.baud]
             ELSE None

\* The pre-image is lit while the device still has the rate of the priming.
SendPreImageTrigger ==
  /\ priming = "woken" /\ setting.preImage
  /\ Strobe(FALSE)
  /\ priming' = "pre-image sent"
  /\ UNCHANGED <<setting, gpio, trains, spi, club, primed>>

\* Last the rate of the shot.  The caller goes on when it fails.
ReopenSpi ==
  /\ priming = IF setting.preImage THEN "pre-image sent" ELSE "woken"
  /\ OpenSpi(setting[RateOf(primed.caller, primed.club)].baud)
  /\ priming' = None
  /\ UNCHANGED <<setting, gpio, trains, club, primed, flash>>

SendExternalTrigger ==
  /\ gpio /\ priming = None
  /\ Strobe(TRUE)
  /\ UNCHANGED <<setting, gpio, trains, spi, club, priming, primed>>

SetCurrentClubType(c) ==
  /\ club' = c
  /\ UNCHANGED <<setting, gpio, trains, spi, priming, primed, flash>>

Next ==
  \/ InitGPIOSystem \/ DeinitGPIOSystem
  \/ \E caller \in Callers : SendCameraPrimingPulses(caller)
  \/ SendPreImageTrigger \/ ReopenSpi \/ SendExternalTrigger
  \/ \E c \in Clubs \ {"NotSelected"} : SetCurrentClubType(c)

Spec == Init /\ [][Next]_vars

-----------------------------------------------------------------------------
\* Whole milliseconds apart or not, each pulse of a train starts its configured pause
\* after the one before, and is lit for all its bits: no rounding to bytes adds up,
\* and none shortens a pulse.
PulsesAreAsConfigured ==
  \A s \in Speeds :
    LET pauses == setting[s].pauses
    IN  (trains[s] # None /\ ~setting.single) =>
          /\ Len(trains[s]) = Len(pauses)
          /\ \A k \in 1..Len(pauses) :
               /\ trains[s][k].length = setting[s].on
               /\ trains[s][k].start = IF k = 1 THEN 0
                                       ELSE trains[s][k - 1].start + pauses[k - 1]

\* A shot of a driver or a putter, the clubs that the program selects, that the FSM
\* primed for that club flashes at the rate its train was built for, whatever step of an
\* earlier or this priming failed.  For another club the FSM sets the slow rate for the
\* fast train, and a still of a putter has the fast rate for the slow train.
FlashRunsAtItsRate ==
  (/\ flash # None /\ flash.shot /\ flash.club \in {"Driver", "Putter"}
   /\ flash.primed = [caller |-> "FSM", club |-> flash.club])
    => flash.baud = setting[TrainOf(flash.club)].baud
=============================================================================
