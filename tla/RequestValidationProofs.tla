---------------------- MODULE RequestValidationProofs ----------------------
(***************************************************************************)
(* RequestInvariant is an invariant of RequestValidation, and what follows *)
(* from it: no send blocks for ever or hits the closed channel, and what   *)
(* the handler answers is true of the request.                             *)
(***************************************************************************)
EXTENDS RequestValidation, SequenceTheorems, TLAPS

(* The checks of each validator, spelled out.                              *)
LEMMA ChecksAre ==
    /\ Len(Checks["time"]) = 3
    /\ Len(Checks["participants"]) = 1
    /\ Len(Checks["price"]) = 1
    /\ Len(Checks["name"]) = 1
    /\ Checks["time"][1] = "InvalidStartDate"
    /\ Checks["time"][2] = "InvalidEndDate"
    /\ Checks["time"][3] = "EndBeforeStart"
    /\ Checks["participants"][1] = "MaxLessThanMin"
    /\ Checks["price"][1] = "PriceNotPositive"
    /\ Checks["name"][1] = "NameAlreadyExists"
  BY DEF Checks

(* Every check of a validator is of a rule, and only the name validator    *)
(* checks the name.                                                        *)
LEMMA ChecksAreRules ==
    ASSUME NEW v \in Validators, NEW i \in 1 .. 4, i <= Len(Checks[v])
    PROVE  /\ Checks[v][i] \in Rules
           /\ Checks[v][i] = "NameAlreadyExists" <=> v = "name"
           /\ i + 1 \in 1 .. 4
  <1>1. CASE v = "time"
    <2>1. i \in {1, 2, 3}
      BY <1>1, ChecksAre
    <2> QED
      BY <1>1, <2>1, ChecksAre DEF Rules
  <1>2. CASE v = "participants"
    <2>1. i = 1
      BY <1>2, ChecksAre
    <2> QED
      BY <1>2, <2>1, ChecksAre DEF Rules
  <1>3. CASE v = "price"
    <2>1. i = 1
      BY <1>3, ChecksAre
    <2> QED
      BY <1>3, <2>1, ChecksAre DEF Rules
  <1>4. CASE v = "name"
    <2>1. i = 1
      BY <1>4, ChecksAre
    <2> QED
      BY <1>4, <2>1, ChecksAre DEF Rules
  <1> QED
    BY <1>1, <1>2, <1>3, <1>4 DEF Validators

(* Appending and taking one element.                                       *)
LEMMA AppendedElements ==
    ASSUME NEW S, NEW s \in Seq(S), NEW e \in S
    PROVE  /\ Append(s, e) \in Seq(S)
           /\ Append(s, e) # << >>
           /\ Len(Append(s, e)) = Len(s) + 1
           /\ \A i \in DOMAIN Append(s, e) :
                 Append(s, e)[i] = e \/ (i \in DOMAIN s /\ Append(s, e)[i] = s[i])
  <1>1. /\ Append(s, e) \in Seq(S)
        /\ Len(Append(s, e)) = Len(s) + 1
        /\ \A i \in 1 .. Len(s) : Append(s, e)[i] = s[i]
        /\ Append(s, e)[Len(s) + 1] = e
    BY AppendProperties
  <1>2. /\ Len(s) \in Nat
        /\ DOMAIN s = 1 .. Len(s)
        /\ DOMAIN Append(s, e) = 1 .. Len(s) + 1
    BY <1>1, LenProperties
  <1>3. Append(s, e) # << >>
    BY <1>1, <1>2, EmptySeq
  <1> QED
    BY <1>1, <1>2, <1>3

LEMMA TakenElement ==
    ASSUME NEW S, NEW s \in Seq(S), s # << >>
    PROVE  /\ Head(s) \in S
           /\ Tail(s) \in Seq(S)
           /\ Len(Tail(s)) = Len(s) - 1
           /\ 1 \in DOMAIN s /\ Head(s) = s[1]
           /\ \A i \in DOMAIN Tail(s) : i + 1 \in DOMAIN s /\ Tail(s)[i] = s[i + 1]
  <1>1. /\ Head(s) \in S
        /\ Tail(s) \in Seq(S)
        /\ Len(Tail(s)) = Len(s) - 1
        /\ \A i \in 1 .. Len(Tail(s)) : Tail(s)[i] = s[i + 1]
    BY HeadTailProperties
  <1>2. Len(s) \in Nat /\ Len(s) # 0 /\ DOMAIN s = 1 .. Len(s)
    BY LenProperties, EmptySeq
  <1>3. DOMAIN Tail(s) = 1 .. Len(Tail(s))
    BY <1>1, LenProperties
  <1> QED
    BY <1>1, <1>2, <1>3
-----------------------------------------------------------------------------
(* A check that ends.  reported is whether its rule is broken; the handler *)
(* and the second stage are left alone.                                    *)
Checked(v, reported) ==
    /\ Running(v)
    /\ Report(v, reported)
    /\ UNCHANGED <<environment, handler, closed, fetch, verdict>>

LEMMA InitIsGood == Init => RequestInvariant
  <1> SUFFICES ASSUME Init PROVE RequestInvariant
    OBVIOUS
  <1> USE DEF Init
  <1>1. TypeOK
    <2>1. /\ request \in Requests
          /\ nameTaken \in BOOLEAN
          /\ rowExists \in BOOLEAN
          /\ cached \in {"hit", "unreadable", "miss"}
      OBVIOUS
    <2>2. at \in [Validators -> 1 .. 4]
      OBVIOUS
    <2>3. /\ errCh \in Seq(Rules)
          /\ getErrCh \in Seq({"CampaignNotFound"})
          /\ modelCh \in Seq(Models)
      BY EmptySeq
    <2> QED
      BY <2>1, <2>2, <2>3 DEF TypeOK, Verdicts
  <1>2. StagesAreOrdered
    BY DEF StagesAreOrdered
  <1>3. verdict \notin Rules
    BY DEF Rules
  <1>4. ErrorsAreTrue
    BY <1>3, LenProperties DEF ErrorsAreTrue
  <1>5. SilenceIsPassing
    BY DEF SilenceIsPassing
  <1>6. PassedIsClosed
    BY DEF PassedIsClosed, Passed
  <1>7. SlotsAreEnough
    <2>1. ChecksLeft = 6
      BY DEF ChecksLeft, Validators
    <2> QED
      BY <1>3, <2>1 DEF SlotsAreEnough, ErrorCapacity
  <1>8. FetchErrorsAreSeen
    BY DEF FetchErrorsAreSeen
  <1>9. CrashNeedsMissingName /\ MissingCampaignIsRefused
    BY DEF CrashNeedsMissingName, MissingCampaignIsRefused
  <1> QED
    BY <1>1, <1>2, <1>4, <1>5, <1>6, <1>7, <1>8, <1>9 DEF RequestInvariant
-----------------------------------------------------------------------------
(* What the first stage says of its errors stays true when neither they    *)
(* nor the checks change, and no error is answered.                        *)
LEMMA ErrorsFrame ==
    ASSUME RequestInvariant,
           UNCHANGED <<request, nameTaken, at, errCh, lookupFailed, crashed>>,
           verdict' \in Rules => verdict \in Rules /\ verdict' = verdict,
           verdict \in Rules => verdict' = verdict
    PROVE  ErrorsAreTrue' /\ SilenceIsPassing' /\ SlotsAreEnough' /\ CrashNeedsMissingName'
  <1> USE DEF RequestInvariant
  <1>1. \A rule : Broken(rule)' <=> Broken(rule)
    BY DEF Broken, Breaks, Given
  <1>2. \A rule : Missed(rule)' <=> Missed(rule)
    BY DEF Missed
  <1>3. ErrorsAreTrue'
    BY <1>1 DEF ErrorsAreTrue
  <1>4. SilenceIsPassing'
    BY <1>1, <1>2 DEF SilenceIsPassing
  <1>5. SlotsAreEnough'
    <2>1. ChecksLeft' = ChecksLeft
      BY DEF ChecksLeft
    <2> QED
      BY <2>1 DEF SlotsAreEnough, ErrorCapacity
  <1>6. CrashNeedsMissingName'
    BY DEF CrashNeedsMissingName
  <1> QED
    BY <1>3, <1>4, <1>5, <1>6

(* A check keeps the invariant, if it reports a rule only when that is     *)
(* broken, and misses none but a name whose lookup failed.                 *)
LEMMA CheckedKeeps ==
    ASSUME RequestInvariant,
           NEW v \in Validators, NEW reported \in BOOLEAN,
           Checked(v, reported),
           lookupFailed' \in BOOLEAN,
           lookupFailed => lookupFailed',
           lookupFailed' => lookupFailed \/ v = "name",
           reported => Broken(Checks[v][at[v]]),
           ~reported /\ Broken(Checks[v][at[v]]) => v = "name" /\ lookupFailed'
    PROVE  RequestInvariant'
  <1> USE DEF Checked, environment, fetch
  <1> DEFINE rule == Checks[v][at[v]]
  <1>1. TypeOK /\ at[v] \in 1 .. 4 /\ at \in [Validators -> 1 .. 4] /\ errCh \in Seq(Rules)
    BY DEF RequestInvariant, TypeOK
  <1>2. at[v] <= Len(Checks[v])
    <2>1. Len(Checks[v]) \in Nat
      BY ChecksAre DEF Validators
    <2> QED
      BY <1>1, <2>1 DEF Running, Returned
  <1>3. rule \in Rules /\ (rule = "NameAlreadyExists" <=> v = "name") /\ at[v] + 1 \in 1 .. 4
    BY <1>1, <1>2, ChecksAreRules
  <1>4. ~closed /\ ~closed'
    BY <1>2 DEF Running, RequestInvariant, StagesAreOrdered, AllReturned
  <1>5. /\ crashed' = FALSE
        /\ at' = [at EXCEPT ![v] = @ + 1]
        /\ errCh' = IF reported THEN Append(errCh, rule) ELSE errCh
    BY <1>4 DEF Report
  <1>6. \A r : Broken(r)' <=> Broken(r)
    BY DEF Broken, Breaks, Given
  <1>7. errCh' \in Seq(Rules)
    BY <1>1, <1>3, <1>5, AppendedElements
  <1>8. TypeOK'
    <2>1. at' \in [Validators -> 1 .. 4]
      BY <1>1, <1>3, <1>5
    <2> QED
      BY <1>1, <1>5, <1>7, <2>1 DEF TypeOK
  <1>9. StagesAreOrdered'
    <2>1. StagesAreOrdered
      BY DEF RequestInvariant
    <2>2. lookupFailed' => at'["name"] > 1
      BY <1>1, <1>5, <2>1, ChecksAre DEF StagesAreOrdered, Returned, Validators
    <2>3. lookupFailed' => Returned("name")'
      BY <2>2, ChecksAre DEF Returned
    <2> QED
      BY <1>4, <2>1, <2>3 DEF StagesAreOrdered
  <1>10. ErrorsAreTrue'
    <2>1. ErrorsAreTrue
      BY DEF RequestInvariant
    <2>2. \A i \in DOMAIN errCh' : Broken(errCh'[i])
      <3>1. CASE reported
        BY <1>1, <1>3, <1>5, <2>1, <3>1, AppendedElements DEF ErrorsAreTrue
      <3>2. CASE ~reported
        BY <1>5, <2>1, <3>2 DEF ErrorsAreTrue
      <3> QED
        BY <3>1, <3>2
    <2> QED
      BY <1>6, <2>1, <2>2 DEF ErrorsAreTrue
  <1>11. SilenceIsPassing'
    <2>1. CASE reported
      <3>1. errCh' # << >>
        BY <1>1, <1>3, <1>5, <2>1, AppendedElements
      <3> QED
        BY <3>1 DEF SilenceIsPassing
    <2>2. CASE ~reported
      <3> SUFFICES ASSUME verdict' \notin Rules, errCh' = << >>,
                          NEW w \in Validators, NEW i \in 1 .. at'[w] - 1,
                          Broken(Checks[w][i])
                   PROVE  Missed(Checks[w][i])'
        BY <1>6 DEF SilenceIsPassing
      <3>1. SilenceIsPassing
        BY DEF RequestInvariant
      <3>2. CASE w = v /\ i = at[v]
        BY <1>3, <2>2, <3>2 DEF Missed
      <3>3. CASE ~(w = v /\ i = at[v])
        <4>1. at[w] \in 1 .. 4 /\ at'[w] = IF w = v THEN at[v] + 1 ELSE at[w]
          BY <1>1, <1>5
        <4>2. i \in 1 .. at[w] - 1
          BY <1>1, <3>3, <4>1
        <4>3. Missed(Checks[w][i])
          BY <1>5, <2>2, <3>1, <4>2 DEF SilenceIsPassing
        <4> QED
          BY <4>3 DEF Missed
      <3> QED
        BY <3>2, <3>3
    <2> QED
      BY <2>1, <2>2
  <1>12. PassedIsClosed'
    <2>1. ~Passed
      BY <1>4 DEF RequestInvariant, PassedIsClosed
    <2> QED
      BY <2>1 DEF PassedIsClosed, Passed
  <1>13. SlotsAreEnough'
    <2>1. ChecksLeft' = ChecksLeft - 1
      <3>1. \A w \in Validators : at[w] \in Int /\ at'[w] = IF w = v THEN at[w] + 1 ELSE at[w]
        BY <1>1, <1>5
      <3>2. v \in {"time", "participants", "price", "name"}
        BY DEF Validators
      <3> HIDE DEF Checked
      <3> QED
        BY <3>1, <3>2 DEF ChecksLeft, Validators
    <2>2. ChecksLeft \in Int
      <3>1. \A w \in Validators : at[w] \in Int
        BY <1>1
      <3> HIDE DEF Checked
      <3> QED
        BY <3>1 DEF ChecksLeft, Validators
    <2>3. Len(errCh) \in Nat /\ Len(errCh') \in Nat /\ Len(errCh') <= Len(errCh) + 1
      BY <1>1, <1>3, <1>5, <1>7, AppendedElements, LenProperties
    <2>4. SlotsAreEnough
      BY DEF RequestInvariant
    <2> QED
      BY <2>1, <2>2, <2>3, <2>4 DEF SlotsAreEnough, ErrorCapacity
  <1>14. FetchErrorsAreSeen' /\ MissingCampaignIsRefused'
    BY DEF RequestInvariant, FetchErrorsAreSeen, Nowhere, MissingCampaignIsRefused
  <1>15. CrashNeedsMissingName'
    BY <1>5 DEF CrashNeedsMissingName
  <1> QED
    BY <1>8, <1>9, <1>10, <1>11, <1>12, <1>13, <1>14, <1>15 DEF RequestInvariant

LEMMA CheckFieldsKeeps ==
    ASSUME RequestInvariant, NEW v \in Validators \ {"name"}, CheckFields(v)
    PROVE  RequestInvariant'
  <1> DEFINE broken == Breaks(request, Checks[v][at[v]])
  <1>1. Checked(v, broken) /\ UNCHANGED lookupFailed
    BY DEF CheckFields, Checked
  <1>2. TypeOK
    BY DEF RequestInvariant
  <1>3. Checks[v][at[v]] # "NameAlreadyExists"
    <2>1. Len(Checks[v]) \in Nat
      BY ChecksAre DEF Validators
    <2>2. at[v] \in 1 .. 4 /\ at[v] <= Len(Checks[v])
      BY <1>2, <2>1 DEF CheckFields, Running, Returned, TypeOK
    <2> QED
      BY <2>2, ChecksAreRules
  <1>4. broken \in BOOLEAN
    BY DEF Breaks
  <1>5. Broken(Checks[v][at[v]]) <=> broken
    BY <1>3 DEF Broken
  <1>6. lookupFailed' \in BOOLEAN
    BY <1>1, <1>2 DEF TypeOK
  <1> QED
    BY <1>1, <1>4, <1>5, <1>6, CheckedKeeps

LEMMA CheckNameKeeps ==
    ASSUME RequestInvariant, CheckName
    PROVE  RequestInvariant'
  <1>1. PICK failed \in BOOLEAN :
            /\ Report("name", request.name # "blank" /\ nameTaken /\ ~failed)
            /\ lookupFailed' = failed
    BY DEF CheckName, LookupFailures
  <1> DEFINE taken == request.name # "blank" /\ nameTaken /\ ~failed
  <1>2. TypeOK
    BY DEF RequestInvariant
  <1>3. Checked("name", taken)
    BY <1>1 DEF CheckName, Checked
  <1>4. "name" \in Validators /\ taken \in BOOLEAN
    BY <1>2 DEF Validators, TypeOK
  <1>5. Checks["name"][at["name"]] = "NameAlreadyExists" /\ ~lookupFailed
    <2>1. at["name"] \in 1 .. 4 /\ at["name"] <= 1
      BY <1>2, <1>4, ChecksAre DEF CheckName, Running, Returned, TypeOK
    <2>2. at["name"] = 1
      BY <2>1
    <2> QED
      BY <2>2, ChecksAre DEF RequestInvariant, StagesAreOrdered, Returned
  <1>6. request.name \in {"blank", "given"}
    BY <1>2, RequestAssumption DEF CheckName, TypeOK, RequestType, Names
  <1>7. /\ taken => Broken("NameAlreadyExists")
        /\ ~taken /\ Broken("NameAlreadyExists") => failed
    BY <1>6 DEF Broken
  <1> QED
    BY <1>1, <1>3, <1>4, <1>5, <1>7, CheckedKeeps

(* The process dies, of a name that an update leaves out.                  *)
LEMMA CheckMissingNameKeeps ==
    ASSUME RequestInvariant, CheckMissingName
    PROVE  RequestInvariant'
  <1> USE DEF RequestInvariant, CheckMissingName, environment, validation, fetch
  <1>1. TypeOK'
    BY DEF TypeOK
  <1>2. \A r : Broken(r)' <=> Broken(r)
    BY DEF Broken, Breaks, Given
  <1>3. StagesAreOrdered'
    BY DEF StagesAreOrdered, AllReturned, Returned
  <1>4. ErrorsAreTrue'
    BY <1>2 DEF ErrorsAreTrue
  <1>5. SilenceIsPassing'
    BY <1>2 DEF SilenceIsPassing, Missed
  <1>6. PassedIsClosed'
    BY DEF PassedIsClosed, Passed
  <1>7. SlotsAreEnough'
    BY DEF SlotsAreEnough, ChecksLeft, ErrorCapacity
  <1>8. FetchErrorsAreSeen' /\ MissingCampaignIsRefused'
    BY DEF FetchErrorsAreSeen, Nowhere, MissingCampaignIsRefused
  <1>9. CrashNeedsMissingName'
    <2>1. request.kind \in {"create", "update"}
      BY RequestAssumption DEF TypeOK, RequestType
    <2> QED
      BY <2>1 DEF CrashNeedsMissingName, Running, Bound
  <1> QED
    BY <1>1, <1>3, <1>4, <1>5, <1>6, <1>7, <1>8, <1>9

LEMMA CloseKeeps ==
    ASSUME RequestInvariant, Close
    PROVE  RequestInvariant'
  <1> USE DEF RequestInvariant, Close, environment, fetch
  <1>1. TypeOK'
    BY DEF TypeOK
  <1>2. StagesAreOrdered'
    BY DEF StagesAreOrdered, AllReturned, Returned
  <1>3. ErrorsAreTrue' /\ SilenceIsPassing' /\ SlotsAreEnough' /\ CrashNeedsMissingName'
    BY ErrorsFrame
  <1>4. PassedIsClosed'
    BY DEF PassedIsClosed, Passed
  <1>5. FetchErrorsAreSeen' /\ MissingCampaignIsRefused'
    BY DEF FetchErrorsAreSeen, Nowhere, MissingCampaignIsRefused
  <1> QED
    BY <1>1, <1>2, <1>3, <1>4, <1>5
-----------------------------------------------------------------------------
(* The handler.                                                            *)
LEMMA BindKeeps ==
    ASSUME RequestInvariant, Bind
    PROVE  RequestInvariant'
  <1> USE DEF RequestInvariant, Bind, Reply, environment, validation, fetch
  <1>1. verdict = "none" /\ verdict' \in {"none", "BadRequest"}
    BY DEF StagesAreOrdered
  <1>2. TypeOK'
    BY <1>1 DEF TypeOK, Verdicts
  <1>3. StagesAreOrdered'
    BY <1>1 DEF StagesAreOrdered, AllReturned, Returned
  <1>4. ErrorsAreTrue' /\ SilenceIsPassing' /\ SlotsAreEnough' /\ CrashNeedsMissingName'
    BY <1>1, ErrorsFrame DEF Rules
  <1>5. PassedIsClosed'
    BY <1>1 DEF PassedIsClosed, Passed
  <1>6. FetchErrorsAreSeen' /\ MissingCampaignIsRefused'
    BY <1>1 DEF FetchErrorsAreSeen, Nowhere, MissingCampaignIsRefused
  <1> QED
    BY <1>2, <1>3, <1>4, <1>5, <1>6

LEMMA ReceiveErrorKeeps ==
    ASSUME RequestInvariant, ReceiveError
    PROVE  RequestInvariant'
  <1> USE DEF ReceiveError, Reply, environment, fetch
  <1>1. TypeOK /\ errCh \in Seq(Rules) /\ errCh # << >> /\ verdict = "none"
    BY DEF RequestInvariant, TypeOK, StagesAreOrdered
  <1>2. /\ verdict' \in Rules /\ verdict' = errCh[1] /\ 1 \in DOMAIN errCh
        /\ errCh' \in Seq(Rules)
        /\ Len(errCh') = Len(errCh) - 1
        /\ \A i \in DOMAIN errCh' : i + 1 \in DOMAIN errCh /\ errCh'[i] = errCh[i + 1]
    BY <1>1, TakenElement
  <1>3. TypeOK'
    BY <1>1, <1>2 DEF TypeOK, Verdicts
  <1>4. StagesAreOrdered'
    BY DEF RequestInvariant, StagesAreOrdered, AllReturned, Returned
  <1>5. \A r : Broken(r)' <=> Broken(r)
    BY DEF Broken, Breaks, Given
  <1>6. ErrorsAreTrue'
    BY <1>2, <1>5 DEF RequestInvariant, ErrorsAreTrue
  <1>7. SilenceIsPassing'
    BY <1>2 DEF SilenceIsPassing
  <1>8. PassedIsClosed'
    BY <1>2 DEF PassedIsClosed, Passed, Rules
  <1>9. SlotsAreEnough'
    <2>1. ChecksLeft' = ChecksLeft /\ SlotsAreEnough
      BY DEF ChecksLeft, RequestInvariant
    <2>2. ChecksLeft \in Int
      <3>1. \A w \in Validators : at[w] \in Int
        BY <1>1 DEF TypeOK
      <3> QED
        BY <3>1 DEF ChecksLeft, Validators
    <2>3. Len(errCh) \in Nat
      BY <1>1, LenProperties
    <2>4. verdict \notin Rules
      BY <1>1 DEF Rules
    <2> QED
      BY <1>2, <2>1, <2>2, <2>3, <2>4 DEF SlotsAreEnough, ErrorCapacity
  <1>10. FetchErrorsAreSeen' /\ MissingCampaignIsRefused'
    BY <1>2 DEF RequestInvariant, FetchErrorsAreSeen, Nowhere, MissingCampaignIsRefused, Rules
  <1>11. CrashNeedsMissingName'
    BY DEF RequestInvariant, CrashNeedsMissingName
  <1> QED
    BY <1>3, <1>4, <1>6, <1>7, <1>8, <1>9, <1>10, <1>11 DEF RequestInvariant

LEMMA PassValidationKeeps ==
    ASSUME RequestInvariant, PassValidation
    PROVE  RequestInvariant'
  <1> USE DEF RequestInvariant, PassValidation, Reply, environment, validation
  <1>1. verdict = "none" /\ verdict' \in {"none", "accepted"}
    BY DEF StagesAreOrdered
  <1>2. TypeOK'
    BY <1>1 DEF TypeOK, Verdicts
  <1>3. StagesAreOrdered'
    BY <1>1 DEF StagesAreOrdered, AllReturned, Returned
  <1>4. ErrorsAreTrue' /\ SilenceIsPassing' /\ SlotsAreEnough' /\ CrashNeedsMissingName'
    BY <1>1, ErrorsFrame DEF Rules
  <1>5. PassedIsClosed'
    BY DEF PassedIsClosed
  <1>6. FetchErrorsAreSeen' /\ MissingCampaignIsRefused'
    BY <1>1 DEF FetchErrorsAreSeen, Nowhere, MissingCampaignIsRefused
  <1> QED
    BY <1>2, <1>3, <1>4, <1>5, <1>6
-----------------------------------------------------------------------------
(* The second stage.                                                       *)
LEMMA FetchCampaignKeeps ==
    ASSUME RequestInvariant, FetchCampaign
    PROVE  RequestInvariant'
  <1> USE DEF RequestInvariant, FetchCampaign, environment, validation
  <1>1. TypeOK'
    BY DEF TypeOK
  <1>2. StagesAreOrdered'
    BY DEF StagesAreOrdered, AllReturned, Returned
  <1>3. ErrorsAreTrue' /\ SilenceIsPassing' /\ SlotsAreEnough' /\ CrashNeedsMissingName'
    BY ErrorsFrame
  <1>4. PassedIsClosed'
    BY DEF PassedIsClosed, Passed
  <1>5. FetchErrorsAreSeen'
    <2>1. /\ fetcher' \in {"found", "absent", "reporting"}
          /\ fetcher' = "reporting" => cached = "miss"
          /\ Nowhere => fetcher' = "reporting"
      BY DEF TypeOK, Nowhere, ReadableRow
    <2> QED
      BY <2>1 DEF FetchErrorsAreSeen, Nowhere
  <1>6. MissingCampaignIsRefused'
    BY DEF MissingCampaignIsRefused
  <1> QED
    BY <1>1, <1>2, <1>3, <1>4, <1>5, <1>6

LEMMA SendFetchErrorKeeps ==
    ASSUME RequestInvariant, SendFetchError
    PROVE  RequestInvariant'
  <1> USE DEF RequestInvariant, SendFetchError, environment, validation
  <1>1. /\ getErrCh' \in Seq({"CampaignNotFound"})
        /\ getErrCh' # << >>
    BY AppendedElements DEF TypeOK
  <1>2. TypeOK'
    BY <1>1 DEF TypeOK
  <1>3. StagesAreOrdered'
    BY DEF StagesAreOrdered, AllReturned, Returned
  <1>4. ErrorsAreTrue' /\ SilenceIsPassing' /\ SlotsAreEnough' /\ CrashNeedsMissingName'
    BY ErrorsFrame
  <1>5. PassedIsClosed'
    BY DEF PassedIsClosed, Passed
  <1>6. FetchErrorsAreSeen' /\ MissingCampaignIsRefused'
    BY <1>1 DEF FetchErrorsAreSeen, Nowhere, MissingCampaignIsRefused
  <1> QED
    BY <1>2, <1>3, <1>4, <1>5, <1>6

LEMMA SendModelKeeps ==
    ASSUME RequestInvariant, SendModel
    PROVE  RequestInvariant'
  <1> USE DEF RequestInvariant, SendModel, environment, validation
  <1>1. modelCh' \in Seq(Models)
    BY AppendedElements DEF TypeOK, Models
  <1>2. TypeOK'
    BY <1>1 DEF TypeOK
  <1>3. StagesAreOrdered'
    BY DEF StagesAreOrdered, AllReturned, Returned
  <1>4. ErrorsAreTrue' /\ SilenceIsPassing' /\ SlotsAreEnough' /\ CrashNeedsMissingName'
    BY ErrorsFrame
  <1>5. PassedIsClosed'
    BY DEF PassedIsClosed, Passed
  <1>6. FetchErrorsAreSeen' /\ MissingCampaignIsRefused'
    BY DEF FetchErrorsAreSeen, Nowhere, MissingCampaignIsRefused
  <1> QED
    BY <1>2, <1>3, <1>4, <1>5, <1>6

LEMMA CloseFetchKeeps ==
    ASSUME RequestInvariant, CloseFetch
    PROVE  RequestInvariant'
  <1> USE DEF RequestInvariant, CloseFetch, environment, validation
  <1>1. TypeOK'
    BY DEF TypeOK
  <1>2. StagesAreOrdered'
    BY DEF StagesAreOrdered, AllReturned, Returned
  <1>3. ErrorsAreTrue' /\ SilenceIsPassing' /\ SlotsAreEnough' /\ CrashNeedsMissingName'
    BY ErrorsFrame
  <1>4. PassedIsClosed'
    BY DEF PassedIsClosed, Passed
  <1>5. FetchErrorsAreSeen' /\ MissingCampaignIsRefused'
    BY DEF FetchErrorsAreSeen, Nowhere, MissingCampaignIsRefused
  <1> QED
    BY <1>1, <1>2, <1>3, <1>4, <1>5

LEMMA ReceiveFetchErrorKeeps ==
    ASSUME RequestInvariant, ReceiveFetchError
    PROVE  RequestInvariant'
  <1> USE DEF RequestInvariant, ReceiveFetchError, Reply, environment, validation
  <1>1. /\ verdict = "none" /\ verdict' = "CampaignNotFound"
        /\ getErrCh' \in Seq({"CampaignNotFound"})
    BY TakenElement DEF StagesAreOrdered, TypeOK
  <1>2. TypeOK'
    BY <1>1 DEF TypeOK, Verdicts
  <1>3. StagesAreOrdered'
    BY <1>1 DEF StagesAreOrdered, AllReturned, Returned
  <1>4. ErrorsAreTrue' /\ SilenceIsPassing' /\ SlotsAreEnough' /\ CrashNeedsMissingName'
    BY <1>1, ErrorsFrame DEF Rules
  <1>5. PassedIsClosed'
    BY <1>1 DEF PassedIsClosed, Passed
  <1>6. FetchErrorsAreSeen' /\ MissingCampaignIsRefused'
    BY <1>1 DEF FetchErrorsAreSeen, Nowhere, MissingCampaignIsRefused
  <1> QED
    BY <1>2, <1>3, <1>4, <1>5, <1>6

LEMMA TakeModelKeeps ==
    ASSUME RequestInvariant, TakeModel
    PROVE  RequestInvariant'
  <1> USE DEF RequestInvariant, TakeModel, Reply, environment, validation
  <1>1. /\ verdict = "none" /\ verdict' \in {"accepted", "InvalidCampaignID"}
        /\ modelCh' \in Seq(Models)
    BY TakenElement DEF StagesAreOrdered, TypeOK
  <1>2. TypeOK'
    BY <1>1 DEF TypeOK, Verdicts
  <1>3. StagesAreOrdered'
    BY <1>1 DEF StagesAreOrdered, AllReturned, Returned
  <1>4. ErrorsAreTrue' /\ SilenceIsPassing' /\ SlotsAreEnough' /\ CrashNeedsMissingName'
    BY <1>1, ErrorsFrame DEF Rules
  <1>5. PassedIsClosed'
    BY <1>1 DEF PassedIsClosed, Passed
  <1>6. ~Nowhere
    BY DEF StagesAreOrdered, FetchErrorsAreSeen
  <1>7. FetchErrorsAreSeen' /\ MissingCampaignIsRefused'
    BY <1>1, <1>6 DEF FetchErrorsAreSeen, Nowhere, MissingCampaignIsRefused
  <1> QED
    BY <1>2, <1>3, <1>4, <1>5, <1>7

LEMMA StutterKeeps ==
    ASSUME RequestInvariant, UNCHANGED vars
    PROVE  RequestInvariant'
  <1> USE DEF RequestInvariant, vars, environment, validation, fetch
  <1>1. TypeOK'
    BY DEF TypeOK
  <1>2. StagesAreOrdered'
    BY DEF StagesAreOrdered, AllReturned, Returned
  <1>3. ErrorsAreTrue' /\ SilenceIsPassing' /\ SlotsAreEnough' /\ CrashNeedsMissingName'
    BY ErrorsFrame
  <1>4. PassedIsClosed'
    BY DEF PassedIsClosed, Passed
  <1>5. FetchErrorsAreSeen' /\ MissingCampaignIsRefused'
    BY DEF FetchErrorsAreSeen, Nowhere, MissingCampaignIsRefused
  <1> QED
    BY <1>1, <1>2, <1>3, <1>4, <1>5
-----------------------------------------------------------------------------
LEMMA NextKeeps == RequestInvariant /\ [Next]_vars => RequestInvariant'
  <1> SUFFICES ASSUME RequestInvariant, [Next]_vars
               PROVE  RequestInvariant'
    OBVIOUS
  <1>1. CASE Bind
    BY <1>1, BindKeeps
  <1>2. CASE ReceiveError
    BY <1>2, ReceiveErrorKeeps
  <1>3. CASE PassValidation
    BY <1>3, PassValidationKeeps
  <1>4. CASE ReceiveFetchError
    BY <1>4, ReceiveFetchErrorKeeps
  <1>5. CASE TakeModel
    BY <1>5, TakeModelKeeps
  <1>6. CASE \E v \in Validators \ {"name"} : CheckFields(v)
    BY <1>6, CheckFieldsKeeps
  <1>7. CASE CheckName
    BY <1>7, CheckNameKeeps
  <1>8. CASE CheckMissingName
    BY <1>8, CheckMissingNameKeeps
  <1>9. CASE Close
    BY <1>9, CloseKeeps
  <1>10. CASE FetchCampaign
    BY <1>10, FetchCampaignKeeps
  <1>11. CASE SendFetchError
    BY <1>11, SendFetchErrorKeeps
  <1>12. CASE SendModel
    BY <1>12, SendModelKeeps
  <1>13. CASE CloseFetch
    BY <1>13, CloseFetchKeeps
  <1>14. CASE UNCHANGED vars
    BY <1>14, StutterKeeps
  <1> QED
    BY <1>1, <1>2, <1>3, <1>4, <1>5, <1>6, <1>7, <1>8, <1>9, <1>10, <1>11, <1>12,
       <1>13, <1>14 DEF Next, Handle, Validate, Fetch

(* The invariant holds of every request, whatever its fields are, and      *)
(* whatever the clock reads.                                               *)
THEOREM RequestInvariantHolds == Spec => []RequestInvariant
  <1>1. Init => RequestInvariant
    BY InitIsGood
  <1>2. RequestInvariant /\ [Next]_vars => RequestInvariant'
    BY NextKeeps
  <1> QED
    BY <1>1, <1>2, PTL DEF Spec

(* The validators' sends fit in the channel, also after the handler left.  *)
THEOREM SendersAreNeverStuck == Spec => []NoSenderIsStuck
  <1>1. RequestInvariant => NoSenderIsStuck
    BY DEF RequestInvariant, SlotsAreEnough, NoSenderIsStuck, ErrorCapacity
  <1> QED
    BY <1>1, RequestInvariantHolds, PTL

(* Nothing is sent on the closed channel: only the missing name of an      *)
(* update ends the process.                                                *)
THEOREM OnlyMissingNamesCrash == Spec => []CrashNeedsMissingName
  <1>1. RequestInvariant => CrashNeedsMissingName
    BY DEF RequestInvariant
  <1> QED
    BY <1>1, RequestInvariantHolds, PTL

(* The handler never takes the model of a campaign that is nowhere.        *)
THEOREM MissingCampaignsAreRefused == Spec => []MissingCampaignIsRefused
  <1>1. RequestInvariant => MissingCampaignIsRefused
    BY DEF RequestInvariant
  <1> QED
    BY <1>1, RequestInvariantHolds, PTL

(* Every answer with an error is true of the request.                      *)
THEOREM RejectionsAreJustified == Spec => []RejectionIsJustified
  <1>1. RequestInvariant => RejectionIsJustified
    <2> SUFFICES ASSUME RequestInvariant PROVE RejectionIsJustified
      OBVIOUS
    <2>1. verdict \in Rules => Broken(verdict)
      BY DEF RequestInvariant, ErrorsAreTrue
    <2>2. verdict = "CampaignNotFound" => cached = "miss"
      BY DEF RequestInvariant, FetchErrorsAreSeen
    <2> QED
      BY <2>1, <2>2 DEF RejectionIsJustified, Broken, Breaks, Rules
  <1> QED
    BY <1>1, RequestInvariantHolds, PTL

(* An accepted request keeps every rule: the handler passed with an empty  *)
(* channel after every validator had returned.                             *)
THEOREM AcceptedRequestsAreValid == Spec => []AcceptedIsValid
  <1>1. RequestInvariant => AcceptedIsValid
    <2> SUFFICES ASSUME RequestInvariant, verdict = "accepted"
                 PROVE  AcceptedIsValid
      BY DEF AcceptedIsValid
    <2>1. AllReturned /\ errCh = << >> /\ verdict \notin Rules
      BY DEF RequestInvariant, StagesAreOrdered, PassedIsClosed, Passed, Rules
    <2>2. \A v \in Validators : at[v] \in Int /\ at[v] > Len(Checks[v])
      BY <2>1 DEF RequestInvariant, TypeOK, AllReturned, Returned
    <2>3. \A v \in Validators : \A i \in 1 .. at[v] - 1 :
             Broken(Checks[v][i]) => Missed(Checks[v][i])
      BY <2>1 DEF RequestInvariant, SilenceIsPassing
    <2>4. \A rule \in Rules : Broken(rule) => Missed(rule)
      <3>1. /\ {"time", "participants", "price", "name"} \subseteq Validators
            /\ at["time"] > 3 /\ at["participants"] > 1
            /\ at["price"] > 1 /\ at["name"] > 1
        BY <2>2, ChecksAre DEF Validators
      <3>2. /\ 1 \in 1 .. at["time"] - 1 /\ 2 \in 1 .. at["time"] - 1
            /\ 3 \in 1 .. at["time"] - 1
            /\ 1 \in 1 .. at["participants"] - 1
            /\ 1 \in 1 .. at["price"] - 1
            /\ 1 \in 1 .. at["name"] - 1
        BY <2>2, <3>1
      <3> QED
        BY <2>3, <3>1, <3>2, ChecksAre DEF Rules
    <2>5. \A rule \in Rules \ {"NameAlreadyExists"} : ~Breaks(request, rule)
      BY <2>4 DEF Broken, Missed
    <2>6. request \in RequestType /\ Now \in Int
      BY RequestAssumption DEF RequestInvariant, TypeOK
    <2>7. Given(request, Dates) => Now <= request.start /\ request.start < request.end
      BY <2>5, <2>6 DEF Breaks, Rules, Given, Dates, RequestType
    <2>8. Given(request, Limits) => request.min <= request.max
      BY <2>5, <2>6 DEF Breaks, Rules, Given, Limits, RequestType
    <2>9. request.price # Nil => request.price > 0
      BY <2>5, <2>6 DEF Breaks, Rules, RequestType
    <2>10. request.name = "given" /\ nameTaken => lookupFailed
      BY <2>4 DEF Broken, Missed, Rules
    <2> QED
      BY <2>7, <2>8, <2>9, <2>10 DEF AcceptedIsValid
  <1> QED
    BY <1>1, RequestInvariantHolds, PTL
=============================================================================
