----------------------------- MODULE CorrectTime -----------------------------
(***************************************************************************)
(* nrf802154_sniffer.py, correct_time: the dongle stamps a packet with a   *)
(* timer that overflows at TIMER_MAX; the host finds out how often it has  *)
(* overflowed by comparing with its own clock, which runs at another rate  *)
(* and may be set back.  The references are kept between two captures of   *)
(* one object, in between which the dongle may have restarted its timer.   *)
(* The specification has names of its own, TimeSpec and so on: the proofs  *)
(* extend this module and Nrf802154Sniffer, the rest of the class.         *)
(***************************************************************************)
EXTENDS Integers

CONSTANTS Half,         (* TIMER_MAX // 2                                  *)
          StartTimer,   (* the device's time when the first packet comes   *)
          StartClock,   (* the host's time when the first packet comes     *)
          MaxTimer      (* bound: the device's time since its start        *)

ASSUME TimeAssumption == /\ Half \in Nat \ {0}
                         /\ StartTimer \subseteq Nat
                         /\ StartClock \subseteq Int
                         /\ MaxTimer \in Nat

TIMER_MAX == 2 * Half

VARIABLES
  timer,      (* the device's time, not cut off at TIMER_MAX               *)
  clock,      (* time.time() on the host                                   *)
  started,    (* first_local_timestamp is not None                         *)
  first_local_timestamp,
  first_sniffer_timestamp,
  restarted,  (* history: the device has restarted since the first packet  *)
  origin,     (* history: the device's time at the first packet and at the *)
  stamp,      (* last one, counted from its last start                     *)
  heard,      (* history: the host's time at the last packet               *)
  reported    (* what correct_time returned for it                         *)

time_vars == <<timer, clock, started, first_local_timestamp, first_sniffer_timestamp,
               restarted, origin, stamp, heard, reported>>

(* The timestamp of a packet: int(time) & 0xffffffff. *)
SnifferTimestamp == timer % TIMER_MAX

\* Mutant: the correction for a clock that runs ahead is missing.
CorrectedNotAhead(sniffer_timestamp, local_timestamp) ==
  LET absolute_sniffer_timestamp ==
        first_sniffer_timestamp + local_timestamp - first_local_timestamp
      overflow_count == absolute_sniffer_timestamp \div TIMER_MAX
      timestamp_modulo == absolute_sniffer_timestamp % TIMER_MAX
      correction == IF timestamp_modulo - Half > sniffer_timestamp THEN 1 ELSE 0
  IN first_local_timestamp - first_sniffer_timestamp + sniffer_timestamp
       + (overflow_count + correction) * TIMER_MAX

\* Mutant: the correction for a clock that lags behind is missing.
CorrectedNotBehind(sniffer_timestamp, local_timestamp) ==
  LET absolute_sniffer_timestamp ==
        first_sniffer_timestamp + local_timestamp - first_local_timestamp
      overflow_count == absolute_sniffer_timestamp \div TIMER_MAX
      timestamp_modulo == absolute_sniffer_timestamp % TIMER_MAX
      correction == IF timestamp_modulo + Half < sniffer_timestamp THEN -1 ELSE 0
  IN first_local_timestamp - first_sniffer_timestamp + sniffer_timestamp
       + (overflow_count + correction) * TIMER_MAX

(* correct_time after the first packet. *)
Corrected(sniffer_timestamp, local_timestamp) ==
  LET time_difference == local_timestamp - first_local_timestamp
      absolute_sniffer_timestamp == first_sniffer_timestamp + time_difference
      overflow_count == absolute_sniffer_timestamp \div TIMER_MAX
      timestamp_modulo == absolute_sniffer_timestamp % TIMER_MAX
      correction == IF timestamp_modulo + Half < sniffer_timestamp THEN -1
                    ELSE IF timestamp_modulo - Half > sniffer_timestamp THEN 1
                    ELSE 0
  IN first_local_timestamp - first_sniffer_timestamp + sniffer_timestamp
       + (overflow_count + correction) * TIMER_MAX

(* How far the host's clock is ahead of the device's since the first packet. *)
Drift == (clock - first_local_timestamp) - (timer - origin)

TimeInit == /\ timer \in StartTimer
            /\ clock \in StartClock
            /\ started = FALSE
            /\ first_local_timestamp = 0
            /\ first_sniffer_timestamp = 0
            /\ restarted = FALSE
            /\ origin = 0
            /\ stamp = 0
            /\ heard = 0
            /\ reported = 0

(* Time passes on the device; the host's clock may be ahead or behind by   *)
(* any drift below half a period (36 minutes), and be set back.            *)
Pass(t, drift) == /\ started
                  /\ timer' = timer + t
                  /\ clock' = first_local_timestamp + (timer + t - origin) + drift
                  /\ UNCHANGED <<started, first_local_timestamp, first_sniffer_timestamp,
                                 restarted, origin, stamp, heard, reported>>

(* The dongle is plugged in again and its timer starts at another value;   *)
(* a new capture keeps the references.  Bound: once, since they are never  *)
(* set again.                                                              *)
Restart(t) == /\ started /\ ~restarted
              /\ restarted' = TRUE
              /\ timer' = t
              /\ origin' = origin + (t - timer)
              /\ stamp' = stamp + (t - timer)
              /\ UNCHANGED <<clock, started, first_local_timestamp,
                             first_sniffer_timestamp, heard, reported>>

FirstPacket == /\ ~started
               /\ started' = TRUE
               /\ first_local_timestamp' = clock
               /\ first_sniffer_timestamp' = SnifferTimestamp
               /\ origin' = timer
               /\ stamp' = timer
               /\ heard' = clock
               /\ reported' = clock
               /\ UNCHANGED <<timer, clock, restarted>>

Packet == /\ started
          /\ stamp' = timer
          /\ heard' = clock
          /\ reported' = Corrected(SnifferTimestamp, clock)
          /\ UNCHANGED <<timer, clock, started, first_local_timestamp,
                         first_sniffer_timestamp, restarted, origin>>

TimeNext == \/ \E t \in 0..(MaxTimer - timer), drift \in (1 - Half)..(Half - 1) : Pass(t, drift)
            \/ \E t \in StartTimer : Restart(t)
            \/ FirstPacket
            \/ Packet

TimeSpec == TimeInit /\ [][TimeNext]_time_vars
-----------------------------------------------------------------------------
(* Types. *)
TimeTypes == /\ timer \in Nat
             /\ clock \in Int
             /\ started \in BOOLEAN
             /\ first_local_timestamp \in Int
             /\ first_sniffer_timestamp \in 0..(TIMER_MAX - 1)
             /\ restarted \in BOOLEAN
             /\ origin \in Int
             /\ stamp \in Int
             /\ heard \in Int
             /\ reported \in Int

(* nrf802154_sniffer.py:110: the method works as long as the two timers do *)
(* not drift apart by about 36 minutes.  The time it reports is the host's *)
(* time of the first packet plus the device's time since, exact to the     *)
(* microsecond, over any number of overflows and however long no packet    *)
(* came, until the device restarts.                                        *)
Exact == started /\ ~restarted => reported = first_local_timestamp + (stamp - origin)

(* Until then packets are never reported earlier than the one before, even *)
(* when the host's clock is set back.                                      *)
NeverBack == [][started /\ ~restarted' => reported' >= reported]_time_vars

(* Whatever the device's timer shows, also after a restart, when it has    *)
(* nothing to do with the references kept from the capture before, the     *)
(* time reported is within half a period of the host's clock.              *)
NearClock == started => reported - heard \in (-Half)..Half

TimeInv == started => /\ ~restarted => first_sniffer_timestamp = origin % TIMER_MAX
                      /\ Drift > -Half /\ Drift < Half
                      /\ origin <= stamp /\ stamp <= timer
                      /\ Exact
                      /\ NearClock
=============================================================================
