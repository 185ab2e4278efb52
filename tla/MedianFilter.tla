---------------------------- MODULE MedianFilter -----------------------------
(***************************************************************************)
(* The first stage of each DSP channel, Src/dsp/filter_median.c: a ring of *)
(* the last readings, copied and sorted at each update.  Readings are      *)
(* compared and never computed with, so a few of them stand for all; NaN   *)
(* is not among them.                                                      *)
(***************************************************************************)
EXTENDS Integers, Sequences, SequencesExt

CONSTANTS Readings,    \* the values of the sensor, by rank
          WindowSize   \* MEDIAN_WINDOW_SIZE

ASSUME MedianAssumption == /\ Readings \subseteq Int /\ Readings # {}
                           /\ WindowSize \in Nat \ {0}

VARIABLES buffer, index,   \* of the filter
          median,          \* what the last update returned
          recent           \* history: the readings of the window, oldest first

medianvars == <<buffer, index, median, recent>>

\* Median_Init fills the window with the initial value.
MedianInit == \E initial \in Readings :
                /\ buffer = [i \in 0 .. WindowSize - 1 |-> initial]
                /\ index = 0
                /\ median = initial
                /\ recent = [i \in 1 .. WindowSize |-> initial]

\* One round of the insertion sort: the elements above the key move up.
Placed(sorted, key) ==
  InsertAt(sorted, 1 + Cardinality({i \in DOMAIN sorted : ~(sorted[i] > key)}), key)

\* The copy of the buffer, sorted.
Sorted(buf) == FoldLeft(Placed, <<>>, [i \in 1 .. WindowSize |-> buf[i - 1]])

\* Seeded fault: the buffer itself is sorted.
UpdateSortsInPlace(new_value) ==
  /\ LET sorted == Sorted([buffer EXCEPT ![index] = new_value])
     IN  /\ buffer' = [i \in 0 .. WindowSize - 1 |-> sorted[i + 1]]
         /\ median' = sorted[1 + WindowSize \div 2]
  /\ index' = (index + 1) % WindowSize
  /\ recent' = Append(Tail(recent), new_value)

\* Median_Update.
Median_Update(new_value) ==
  /\ buffer' = [buffer EXCEPT ![index] = new_value]
  /\ index' = (index + 1) % WindowSize
  /\ median' = Sorted(buffer')[1 + WindowSize \div 2]
  /\ recent' = Append(Tail(recent), new_value)

MedianNext == \E v \in Readings : Median_Update(v)

MedianSpec == MedianInit /\ [][MedianNext]_medianvars

-----------------------------------------------------------------------------
\* What is returned is one of the last readings, with no more than half of them
\* below it and no more than half above: up to two spikes among five readings
\* never come through, wherever the ring stands.
MedianOfLast ==
  LET below == {i \in DOMAIN recent : recent[i] < median}
      above == {i \in DOMAIN recent : recent[i] > median}
  IN  /\ \E i \in DOMAIN recent : recent[i] = median
      /\ 2 * Cardinality(below) < WindowSize /\ 2 * Cardinality(above) < WindowSize
=============================================================================
