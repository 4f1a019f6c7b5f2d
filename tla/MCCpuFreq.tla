------------------------------ MODULE MCCpuFreq ------------------------------
EXTENDS CpuFreq

\* Two domains; the second core of the first one can be unplugged.
CONSTANTS c1, c2, c3

MCCoresOf == <<<<c1, c2>>, <<c3>>>>

\* A table with a turbo frequency (2401000, told by its fourth digit) in its
\* middle.
TurboInside == <<1200000, 2401000, 2600000>>
=============================================================================
