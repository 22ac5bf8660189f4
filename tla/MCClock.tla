------------------------------ MODULE MCClock ------------------------------
(* Instances of Clock for TLC.                                             *)
EXTENDS Clock

\* One second before something turns over: a minute, an hour, noon, the 24
\* hours of GMT+7, the ends of months, of leap and other Februaries, of the
\* year, and the day itself.
MCStarts == {
    <<58, 30, 10, 15, 6, 24>>, <<59, 59, 11, 15, 6, 24>>, <<59, 59, 16, 14, 6, 25>>,
    <<59, 59, 16, 30, 4, 24>>, <<59, 59, 17, 31, 5, 24>>, <<59, 59, 20, 28, 2, 24>>,
    <<59, 59, 20, 29, 2, 24>>, <<59, 59, 16, 28, 2, 25>>, <<59, 59, 16, 31, 12, 24>>,
    <<59, 59, 23, 31, 12, 24>>, <<59, 59, 23, 31, 12, 99>>, <<59, 59, 23, 29, 2, 28>> }
=============================================================================
