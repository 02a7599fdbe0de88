-------------------------------- MODULE MCTimes --------------------------------
EXTENDS Times

\* Three microseconds in a second: one time before the epoch, the others in
\* three different seconds, with and without a fraction.
MCStored == {-2, 0, 2, 4, 6}

\* Three nanoseconds in a microsecond.
MCAsked == {-5, 0, 7, 14, 27}

=============================================================================
