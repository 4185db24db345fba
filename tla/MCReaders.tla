----------------------------- MODULE MCReaders -----------------------------
(***************************************************************************)
(* Two readers of what a market left behind, which share nothing: the      *)
(* auditor of its published chain (ChainAudit) and its candle history      *)
(* (CandleHistory).  A behaviour follows one of them.                      *)
(***************************************************************************)
EXTENDS ChainAudit

CONSTANTS
  None, Unknown, HourMinutes, Timeframes, SequenceLease, KilledIn, MaxMinute, MaxTicks, MaxFaults

VARIABLES
  subject, \* the reader the behaviour follows
  deployment, process, step, published, served, recordFrom, lease, checkpoint, minutes, hours,
  recorder, kills, failures

\* A venue with a tick record, one that also gives new markets a past, and one
\* with neither.
Deployments ==
  {[record |-> TRUE, backfill |-> FALSE], [record |-> TRUE, backfill |-> TRUE],
   [record |-> FALSE, backfill |-> FALSE]}

candles == <<deployment, process, step, published, served, recordFrom, lease, checkpoint, minutes,
             hours, recorder, kills, failures>>

Candles == INSTANCE CandleHistory

InitReaders ==
  /\ Init /\ Candles!Init
  /\ subject \in {"chain", "candles"}
  /\ subject = "chain" => deployment = [record |-> TRUE, backfill |-> FALSE]

NextReaders ==
  \/ subject = "chain" /\ Next /\ UNCHANGED subject /\ UNCHANGED candles
  \/ subject = "candles" /\ Candles!Next /\ UNCHANGED subject /\ UNCHANGED vars

SpecReaders == InitReaders /\ [][NextReaders]_<<subject, vars, candles>>

\* Anchors say nothing of the rotations: the two are not explored together.
Apart == anchor = NoAnchor \/ rotations = <<>>

\* With a tick record, no kill or seam makes the minute series pass over a minute
\* but those a restarted recorder cannot vouch for (history.ts, HistoryRecorder).
MinutesAreKept == subject = "candles" => Candles!MinutesAreKept

\* A stored minute is every tick published in it, and no bar of any length passes
\* over a tick between its first and its last (history.ts, readTimeframe).
BarsAreExact == subject = "candles" => Candles!BarsAreExact

\* "No partial bar is ever labelled whole" (history.ts, readTimeframe).
ServedAreWhole == subject = "candles" => Candles!ServedAreWhole

\* No restart finds the market's own stream behind what it stored (history.ts,
\* HistoryRecorder; the catch-up of history.service.ts).
NothingIsSpliced == subject = "candles" => Candles!NothingIsSpliced
=============================================================================
