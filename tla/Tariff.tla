------------------------------- MODULE Tariff -------------------------------
(***************************************************************************)
(* The peaks the network company bills: core/ellevio.py, which main.py     *)
(* calls with the grid power of each snapshot.  A month has Hours hours;   *)
(* an hour without a snapshot is not seen at all.  to_dict and from_dict,  *)
(* which would carry the peaks across a restart, are called by nothing: a  *)
(* restart forgets them, as a new month does.                              *)
(*                                                                         *)
(* A reading is a multiple of a quantum of power and an hour has one or    *)
(* two of them; averages and weights are kept in quarters of a quantum.    *)
(***************************************************************************)
EXTENDS Integers, Sequences, FiniteSets, SequencesExt

CONSTANTS
    Hours,       \* of a month
    LowHours,    \* those with night_weight, one half
    TopN,        \* top_n
    Import,      \* grid readings; negative: export
    Samples,     \* cycles of an hour
    LastMonth    \* the months there are

ASSUME TariffAssumption ==
    /\ Hours \in Nat \ {0} /\ LowHours \subseteq 1..Hours
    /\ TopN \in Nat \ {0} /\ Import \subseteq Int /\ Samples \in {1, 2}
    /\ LastMonth \in Nat

VARIABLES
    month, clock,    \* now: the month and the hour in it
    tariffMonth,     \* EllevioState.month
    peaks,           \* top_peaks
    sample,          \* current_hour_sample: hour, sum_kw, count
    ledger           \* history: what was read in each hour since the tracker last forgot

tariffVars == <<month, clock, tariffMonth, peaks, sample, ledger>>

NoSample == [hour |-> 0, sum |-> 0, count |-> 0]
EmptyLedger == [h \in 1..Hours |-> [NoSample EXCEPT !.hour = h]]

HourSample == [hour : 0..Hours, sum : Nat, count : 0..Samples]

TariffTypeOK ==
    /\ month \in 0..LastMonth /\ clock \in 1..Hours /\ tariffMonth \in -1..LastMonth
    /\ peaks \in Seq(Nat) /\ Len(peaks) <= TopN
    /\ sample \in HourSample /\ ledger \in [1..Hours -> HourSample]

TariffInit ==
    /\ month = 0 /\ clock \in 1..Hours /\ tariffMonth = -1
    /\ peaks = <<>> /\ sample = NoSample /\ ledger = EmptyLedger

------------------------------------------------------------------------------
\* weighted_avg_kw.
Weighted(s) == (s.sum * (IF s.hour \in LowHours THEN 2 ELSE 4)) \div s.count

\* sorted(reverse=True).
Descending(s) ==
    LET p == CHOOSE p \in Bijection(DOMAIN s, DOMAIN s) :
                 \A i, j \in DOMAIN s : i < j => s[p[i]] >= s[p[j]]
    IN  [i \in DOMAIN s |-> s[p[i]]]

\* Mutant: the list is cut before it is sorted.
CutFirst(p, kw) ==
    LET list == Append(p, kw)
    IN  Descending(IF Len(list) > TopN THEN SubSeq(list, 1, TopN) ELSE list)

\* _close_hour: the TopN largest stay, in descending order.
Kept(p, kw) ==
    LET sorted == Descending(Append(p, kw))
    IN  IF Len(sorted) > TopN THEN SubSeq(sorted, 1, TopN) ELSE sorted

Added(s, kw) == [s EXCEPT !.sum = @ + (IF kw > 0 THEN kw ELSE 0), !.count = @ + 1]

\* update: a new month first forgets everything, the hour under way included.
Update(kw) ==
    LET fresh == tariffMonth # month
        before == IF fresh THEN NoSample ELSE sample
        top == IF fresh THEN <<>> ELSE peaks
        book == IF fresh THEN EmptyLedger ELSE ledger
        current == IF before.hour = clock THEN before ELSE [NoSample EXCEPT !.hour = clock]
    IN  /\ book[clock].count < Samples
        /\ tariffMonth' = month
        /\ peaks' = IF before.hour # clock /\ before.count > 0
                    THEN Kept(top, Weighted(before)) ELSE top
        /\ sample' = Added(current, kw)
        /\ ledger' = [book EXCEPT ![clock] = Added(@, kw)]
        /\ UNCHANGED <<month, clock>>

\* The hour is over, and maybe the month.
NextTariffHour ==
    /\ clock' = (clock % Hours) + 1
    /\ IF clock = Hours THEN month < LastMonth /\ month' = month + 1 ELSE UNCHANGED month
    /\ UNCHANGED <<tariffMonth, peaks, sample, ledger>>

TariffRestart ==
    /\ tariffMonth' = -1 /\ peaks' = <<>> /\ sample' = NoSample /\ ledger' = EmptyLedger
    /\ UNCHANGED <<month, clock>>

TariffNext == NextTariffHour \/ TariffRestart \/ \E kw \in Import : Update(kw)

TariffSpec == TariffInit /\ [][TariffNext]_tariffVars

------------------------------------------------------------------------------
(* Properties.                                                             *)

\* What the network company makes of these hours: the largest of their averages.
Billed(hours) ==
    LET list == SetToSeq(hours)
        sorted == Descending([i \in 1..Len(list) |-> Weighted(ledger[list[i]])])
    IN  IF Len(sorted) > TopN THEN SubSeq(sorted, 1, TopN) ELSE sorted

\* What the tracker keeps of each hour is enough: at any time its peaks are those of all the hours
\* since it last forgot, but for the one under way, with hours it never saw and at both weights.
\* They are not those of the bill: the hour under way when a month ends is forgotten with the
\* rest, and so is everything before a restart.
PeaksKept == peaks = Billed({h \in 1..Hours : ledger[h].count > 0 /\ h # sample.hour})
=============================================================================
