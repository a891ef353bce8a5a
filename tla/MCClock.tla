------------------------------- MODULE MCClock -------------------------------
(***************************************************************************)
(* A small calendar: a minute has 2 seconds, an hour 2 minutes, a day 2    *)
(* hours, a month 3 days, and a year 2 months and the first 2 days of a    *)
(* third.  A word holds 4 years.                                           *)
(***************************************************************************)
EXTENDS Clock

\* The first moment of all, the end of the last month, one whose low half is 0,
\* one whose high half is 0, and the 31st of a month.
MCDates ==
  {<<0, 1, 1, 0, 0, 0>>, <<0, 2, 3, 1, 1, 1>>, <<1, 1, 1, 0, 0, 0>>,
   <<0, 1, 1, 1, 0, 1>>, <<0, 1, 4, 0, 0, 0>>}
=============================================================================
