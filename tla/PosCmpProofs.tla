---------------------------- MODULE PosCmpProofs ----------------------------
(***************************************************************************)
(* The nearest-station search of PosCmp for lines of every length and all  *)
(* distances.                                                              *)
(***************************************************************************)
EXTENDS PosCmp, TLAPS

(* In the middle of the loop: the first nearest of the stations seen.      *)
ScanSoFar ==
    pc = "scan" =>
        /\ i <= sta_size
        /\ sta_size = 0 => min_dis = Undefined
        /\ sta_size > 0 =>
              /\ min_index \in Indices /\ min_dis = dis[min_index]
              /\ min_index < i \/ min_index = 0
              /\ \A j \in 0 .. i - 1 : dis[min_index] <= dis[j]
              /\ \A j \in 0 .. min_index - 1 : dis[min_index] < dis[j]

(* A line without stations has no nearest one.                             *)
NothingFound == pc = "check" /\ sta_size = 0 => dis_last = Undefined

ScanInv == TypeOK /\ ScanSoFar /\ NearestFound /\ NothingFound

LEMMA InitScanInv == Init => ScanInv
<1> SUFFICES ASSUME Init PROVE ScanInv
  OBVIOUS
<1>1. line_sta \in [Indices -> Names]
  <2>1. Indices = {}
    BY DEF Init, Indices
  <2> QED
    BY <2>1 DEF Init
<1>2. TypeOK
  BY <1>1 DEF Init, TypeOK, SettingsOK, ScanOK, OutcomeOK, Undefined
<1> QED
  BY <1>2 DEF Init, ScanInv, ScanSoFar, NearestFound, NothingFound

LEMMA TurnKeepsScan ==
    ASSUME ScanInv, rebuild_dis_turn PROVE ScanInv'
<1>1. /\ pc = "scan" /\ pc' = "scan" /\ i < sta_size /\ i' = i + 1
      /\ UNCHANGED <<settings, dis, outcome>>
      /\ Indices' = Indices
  BY DEF rebuild_dis_turn, settings, Indices
<1>a. /\ i \in Nat /\ sta_size \in Nat /\ min_index \in Nat
      /\ dis \in [Indices -> Dists]
  BY <1>1 DEF ScanInv, TypeOK, SettingsOK, ScanOK
<1>b. dis \in [Indices -> Nat] /\ i \in Indices /\ sta_size > 0
  <2>1. dis \in [Indices -> Nat]
    BY <1>a, PosCmpAssumption
  <2> QED
    BY <1>1, <1>a, <2>1 DEF Indices
<1>2. /\ min_index \in Indices /\ min_dis = dis[min_index]
      /\ min_index < i \/ min_index = 0
      /\ \A j \in 0 .. i - 1 : dis[min_index] <= dis[j]
      /\ \A j \in 0 .. min_index - 1 : dis[min_index] < dis[j]
  BY <1>1, <1>b DEF ScanInv, ScanSoFar
<1>c. SettingsOK' /\ OutcomeOK' /\ pc' \in {"idle", "scan", "check"}
  BY <1>1 DEF ScanInv, TypeOK, SettingsOK, OutcomeOK, settings, outcome
<1>3. \A j \in 0 .. i : j \in Indices /\ dis[j] \in Nat
  BY <1>a, <1>b DEF Indices
<1>4. CASE Closer(i) /\ min_dis' = dis[i] /\ min_index' = i
  <2>1. dis[i] < dis[min_index]
    BY <1>2, <1>4 DEF Closer
  <2>2. \A j \in 0 .. i - 1 : dis[i] < dis[j]
    BY <1>a, <1>2, <1>3, <2>1
  <2>3. ScanSoFar'
    BY <1>1, <1>a, <1>b, <1>3, <1>4, <2>2 DEF ScanSoFar, settings
  <2>4. TypeOK'
    BY <1>1, <1>a, <1>c, <1>3, <1>4, <1>b DEF TypeOK, ScanOK
  <2> QED
    BY <1>1, <2>3, <2>4 DEF ScanInv, NearestFound, NothingFound
<1>5. CASE ~Closer(i) /\ UNCHANGED <<min_dis, min_index>>
  <2>1. dis[min_index] <= dis[i]
    BY <1>a, <1>b, <1>2, <1>5 DEF Closer
  <2>2. \A j \in 0 .. i : dis[min_index] <= dis[j]
    BY <1>a, <1>2, <2>1
  <2>3. ScanSoFar'
    BY <1>1, <1>a, <1>b, <1>2, <1>5, <2>2 DEF ScanSoFar, settings
  <2>4. TypeOK'
    BY <1>1, <1>a, <1>c, <1>5 DEF ScanInv, TypeOK, ScanOK
  <2> QED
    BY <1>1, <2>3, <2>4 DEF ScanInv, NearestFound, NothingFound
<1> QED
  BY <1>4, <1>5 DEF rebuild_dis_turn

LEMMA StepScanInv == ScanInv /\ [Next]_vars => ScanInv'
<1> SUFFICES ASSUME ScanInv, [Next]_vars PROVE ScanInv'
  OBVIOUS
<1>1. ASSUME NEW n \in 0 .. MaxSize, NEW arr \in [0 .. n - 1 -> Names],
             set_line_sta(arr, n)
      PROVE  ScanInv'
  <2>1. /\ pc = "idle" /\ pc' = "idle" /\ line_sta' = arr /\ sta_size' = n
        /\ UNCHANGED <<remind_sta, threshold, scan, outcome>>
        /\ n \in Nat /\ Indices' = 0 .. n - 1
    BY <1>1, PosCmpAssumption DEF set_line_sta, Indices
  <2>2. SettingsOK'
    BY <1>1, <2>1 DEF ScanInv, TypeOK, SettingsOK
  <2>3. ScanOK' /\ OutcomeOK' /\ TypeOK'
    BY <2>1, <2>2 DEF ScanInv, TypeOK, ScanOK, OutcomeOK, scan, outcome
  <2> QED
    BY <2>1, <2>3 DEF ScanInv, ScanSoFar, NearestFound, NothingFound
<1>2. ASSUME NEW rm_sta \in Names \cup {NoSta}, sta_size = 0 => rm_sta = NoSta,
             set_remind_sta(rm_sta)
      PROVE  ScanInv'
  <2>1. /\ pc = "idle" /\ pc' = "idle" /\ remind_sta' = rm_sta
        /\ UNCHANGED <<line_sta, sta_size, threshold, scan, outcome>>
        /\ Indices' = Indices
    BY <1>2 DEF set_remind_sta, Indices
  <2>2. SettingsOK' /\ ScanOK' /\ OutcomeOK'
    BY <1>2, <2>1 DEF ScanInv, TypeOK, SettingsOK, ScanOK, OutcomeOK, scan, outcome
  <2> QED
    BY <2>1, <2>2 DEF ScanInv, TypeOK, ScanSoFar, NearestFound, NothingFound
<1>3. ASSUME NEW v \in Thresholds, set_reminde_threshold(v)
      PROVE  ScanInv'
  <2>1. /\ pc = "idle" /\ pc' = "idle"
        /\ UNCHANGED <<line_sta, sta_size, remind_sta, scan, outcome>>
        /\ Indices' = Indices
    BY <1>3 DEF set_reminde_threshold, Indices
  <2>2. threshold' \in Int
    BY <1>3, PosCmpAssumption DEF set_reminde_threshold
  <2>3. SettingsOK' /\ ScanOK' /\ OutcomeOK'
    BY <2>1, <2>2 DEF ScanInv, TypeOK, SettingsOK, ScanOK, OutcomeOK, scan, outcome
  <2> QED
    BY <2>1, <2>3 DEF ScanInv, TypeOK, ScanSoFar, NearestFound, NothingFound
<1>4. ASSUME NEW d \in [Indices -> Dists], rebuild_dis_begin(d)
      PROVE  ScanInv'
  <2>1. /\ pc' = "scan" /\ dis' = d /\ i' = 0 /\ min_index' = 0
        /\ min_dis' = IF sta_size = 0 THEN Undefined ELSE d[0]
        /\ UNCHANGED <<settings, outcome>> /\ UNCHANGED sta_size
        /\ Indices' = Indices
    BY <1>4 DEF rebuild_dis_begin, settings, Indices
  <2>a. sta_size \in Nat
    BY DEF ScanInv, TypeOK, SettingsOK
  <2>b. d \in [Indices -> Nat]
    BY <1>4, PosCmpAssumption
  <2>2. sta_size > 0 => 0 \in Indices /\ d[0] \in Nat
    BY <2>a, <2>b DEF Indices
  <2>3. min_dis' \in Int
    BY <2>1, <2>2, <2>a DEF Undefined
  <2>c. SettingsOK' /\ OutcomeOK'
    BY <2>1 DEF ScanInv, TypeOK, SettingsOK, OutcomeOK, settings, outcome
  <2>4. TypeOK'
    BY <1>4, <2>1, <2>3, <2>c DEF ScanInv, TypeOK, ScanOK
  <2>5. ScanSoFar'
    BY <2>1, <2>2, <2>a DEF ScanSoFar
  <2> QED
    BY <2>1, <2>4, <2>5 DEF ScanInv, NearestFound, NothingFound
<1>5. CASE rebuild_dis_turn
  BY <1>5, TurnKeepsScan
<1>6. CASE rebuild_dis_end
  <2>1. /\ pc = "scan" /\ pc' = "check" /\ i >= sta_size
        /\ sta_last' = min_index /\ dis_last' = min_dis
        /\ UNCHANGED <<settings, scan, result>> /\ UNCHANGED <<sta_size, dis>>
        /\ Indices' = Indices
    BY <1>6 DEF rebuild_dis_end, settings, scan, Indices
  <2>a. i \in Nat /\ sta_size \in Nat /\ min_index \in Nat /\ min_dis \in Int
    BY DEF ScanInv, TypeOK, SettingsOK, ScanOK
  <2>b. i = sta_size
    BY <2>1, <2>a DEF ScanInv, ScanSoFar
  <2>c. SettingsOK' /\ ScanOK'
    BY <2>1 DEF ScanInv, TypeOK, SettingsOK, ScanOK, settings, scan
  <2>2. TypeOK'
    <3>1. sta_last' \in Int /\ dis_last' \in Int
      BY <2>1, <2>a
    <3>2. result' \in {"on station", "remind", "none", "error"}
      BY <2>1 DEF ScanInv, TypeOK, OutcomeOK
    <3> QED
      BY <2>1, <2>c, <3>1, <3>2 DEF TypeOK, OutcomeOK
  <2>3. NearestFound' /\ NothingFound'
    BY <2>1, <2>a, <2>b
       DEF ScanInv, ScanSoFar, NearestFound, NothingFound, FirstNearest, Indices
  <2> QED
    BY <2>1, <2>2, <2>3 DEF ScanInv, ScanSoFar
<1>7. CASE checks
  <2>1. /\ pc' = "idle" /\ UNCHANGED <<settings, scan, sta_last, dis_last>>
        /\ Indices' = Indices
    BY <1>7 DEF checks, settings, Indices
  <2>2. result' \in {"on station", "remind", "none", "error"}
    BY <1>7 DEF checks, ScanInv, TypeOK, SettingsOK
  <2>a. SettingsOK' /\ ScanOK'
    BY <1>7, <2>1 DEF checks, ScanInv, TypeOK, SettingsOK, ScanOK, settings, scan
  <2>3. TypeOK'
    BY <2>1, <2>2, <2>a DEF ScanInv, TypeOK, OutcomeOK
  <2> QED
    BY <2>1, <2>3 DEF ScanInv, ScanSoFar, NearestFound, NothingFound
<1>8. CASE UNCHANGED vars
  BY <1>8 DEF vars, ScanInv, TypeOK, SettingsOK, ScanOK, OutcomeOK, ScanSoFar,
              NearestFound, NothingFound, FirstNearest, Indices
<1> QED
  BY <1>1, <1>2, <1>3, <1>4, <1>5, <1>6, <1>7, <1>8 DEF Next

THEOREM ScanInvariant == Spec => []ScanInv
  BY InitScanInv, StepScanInv, PTL DEF Spec

(* The search finds the first nearest station, on lines of every length    *)
(* and for all distances.                                                  *)
THEOREM NearestIsFound == Spec => []NearestFound
<1>1. ScanInv => NearestFound
  BY DEF ScanInv
<1> QED
  BY <1>1, ScanInvariant, PTL

(* Both verdicts rest on the distances of the position just compared.      *)
THEOREM VerdictIsOnPosition == Spec => VerdictOnPosition
<1> DEFINE
    StandsThere == \E j \in Indices : dis[j] <= OnStation /\ sta_last = j
    DueThere == \E j \in Indices :
                    /\ line_sta[j] = remind_sta
                    /\ dis[j] > OnStation /\ dis[j] <= threshold
                    /\ \A k \in Indices : dis[j] <= dis[k]
<1>1. ASSUME ScanInv, [Next]_vars, pc = "check", ~UNCHANGED vars
      PROVE  /\ result' = "on station" => StandsThere
             /\ result' = "remind" => DueThere
  <2>1. checks
    BY <1>1 DEF Next, set_line_sta, set_remind_sta, set_reminde_threshold,
                rebuild_dis_begin, rebuild_dis_turn, rebuild_dis_end
  <2>2. CASE sta_size = 0
    BY <1>1, <2>1, <2>2 DEF checks, check_on_station, Within, ScanInv,
                            NothingFound, TypeOK, SettingsOK
  <2>3. CASE sta_size > 0
    <3>1. sta_last \in Indices /\ dis_last = dis[sta_last] /\ dis_last \in Int
          /\ \A k \in Indices : dis[sta_last] <= dis[k]
      BY <1>1, <2>3 DEF ScanInv, NearestFound, FirstNearest, Indices, TypeOK, OutcomeOK
    <3>2. threshold \in Int
      BY <1>1 DEF ScanInv, TypeOK, SettingsOK
    <3>3. result' = "on station" => check_on_station
      BY <2>1 DEF checks
    <3>4. result' = "remind" => ~check_on_station /\ check_threshold
      BY <2>1 DEF checks
    <3>5. result' = "on station" => StandsThere
      BY <3>1, <3>3 DEF check_on_station, Within
    <3>6. dis_last # Undefined
      <4>1. dis \in [Indices -> Dists]
        BY <1>1 DEF ScanInv, TypeOK, ScanOK
      <4>2. dis_last \in Nat
        BY <3>1, <4>1, PosCmpAssumption
      <4> QED
        BY <4>2 DEF Undefined
    <3>7. result' = "remind" => DueThere
      BY <3>1, <3>2, <3>4, <3>6 DEF check_on_station, check_threshold, Within,
                                    OnStation
    <3> QED
      BY <3>5, <3>7
  <2> QED
    <3>1. sta_size \in Nat
      BY <1>1 DEF ScanInv, TypeOK, SettingsOK
    <3>2. sta_size = 0 \/ sta_size > 0
      BY <3>1
    <3> QED
      BY <3>2, <2>2, <2>3
<1>2. ScanInv /\ [Next]_vars =>
        [pc = "check" =>
            /\ result' = "on station" => StandsThere
            /\ result' = "remind" => DueThere]_vars
  BY <1>1
<1> QED
  BY <1>2, ScanInvariant, PTL DEF Spec, VerdictOnPosition
=============================================================================
