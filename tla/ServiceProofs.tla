---------------------------- MODULE ServiceProofs ----------------------------
(***************************************************************************)
(* Proofs about Service, and the startup it extends, for any number of     *)
(* requests, languages and failures.                                       *)
(***************************************************************************)
EXTENDS Service, TLAPS

(* A bundle is used from one action of a request to its next.              *)
LEMMA UsesAreKept ==
    ASSUME ServiceInvariant, [Next]_vars
    PROVE  UsesEndInTime'
<1>1. ServiceTypeOK /\ UsesEndInTime /\ AloneMeansAlone
  BY DEF ServiceInvariant
<1>2. CASE StartupNext /\ UNCHANGED serviceVars
  BY <1>1, <1>2, ServiceAssumption
     DEF serviceVars, shared, answer, UsesEndInTime, InUse, AloneMeansAlone, InFlight,
         Over, ServiceTypeOK
<1>3. CASE \E r \in Requests : stage = "serving" /\ Arrive(r)
  BY <1>1, <1>3, ServiceAssumption
     DEF Arrive, Goes, startupVars, answer, UsesEndInTime, InUse, AloneMeansAlone,
         InFlight, Over, ServiceTypeOK
<1>4. CASE \E r \in Requests : Serves(r) /\ Middleware(r)
  BY <1>1, <1>4, ServiceAssumption
     DEF Serves, Middleware, Register, Registered, TakeLanguages, OpenFile, ReadFile,
         ReadFails, Load, Loaded, LoadFails, Route, DecodeHeader, Check, Goes, Answers,
         startupVars, shared, answer, UsesEndInTime, InUse, AloneMeansAlone, InFlight,
         Over, ServiceTypeOK
<1>5. CASE \E r \in Requests : Serves(r) /\ Handler(r)
  BY <1>1, <1>5, ServiceAssumption
     DEF Serves, Handler, Handle, Starts, GetWithoutClient, UpdateWithoutClient,
         UpdateWithoutName, Localize, Localized, Dies, Goes, Answers, startupVars, shared,
         answer, serviceVars, UsesEndInTime, InUse, AloneMeansAlone, InFlight, Over,
         ServiceTypeOK
<1>6. CASE \E r \in Requests : stage = "serving" /\ RunBackground(r)
  BY <1>1, <1>6, ServiceAssumption
     DEF RunBackground, Dies, startupVars, shared, answer, UsesEndInTime, InUse,
         AloneMeansAlone, InFlight, Over, ServiceTypeOK
<1>7. CASE stage = "serving" /\ MapsCollide
  BY <1>1, <1>7, ServiceAssumption
     DEF MapsCollide, Dies, serviceVars, shared, answer, UsesEndInTime, InUse,
         AloneMeansAlone, InFlight, Over, ServiceTypeOK
<1>8. CASE UNCHANGED vars
  BY <1>1, <1>8, ServiceAssumption
     DEF vars, serviceVars, startupVars, shared, answer, UsesEndInTime, InUse,
         AloneMeansAlone, InFlight, Over, ServiceTypeOK
<1> QED
  BY <1>2, <1>3, <1>4, <1>5, <1>6, <1>7, <1>8 DEF Next, Serves

(* Whoever arrives makes the others no longer alone.                       *)
LEMMA AloneIsKept ==
    ASSUME ServiceInvariant, [Next]_vars
    PROVE  AloneMeansAlone'
<1>1. ServiceTypeOK /\ AloneMeansAlone
  BY DEF ServiceInvariant
<1>2. CASE StartupNext /\ UNCHANGED serviceVars
  BY <1>1, <1>2
     DEF serviceVars, shared, answer, AloneMeansAlone, InFlight, Over, ServiceTypeOK
<1>3. CASE \E r \in Requests : stage = "serving" /\ Arrive(r)
  <2>1. PICK r \in Requests : stage = "serving" /\ Arrive(r)
    BY <1>3
  <2>2. /\ bundle' = r /\ pc[r] = "idle"
        /\ pc' = [pc EXCEPT ![r] = "fresh"]
        /\ \A s \in Requests \ {r} : alone'[s] => ~InFlight(s)
        /\ alone'[r] => \A t \in Requests : ~InFlight(t)
    BY <1>1, <2>1 DEF Arrive, Goes, ServiceTypeOK
  <2>3. \A s \in Requests \ {r} : InFlight(s)' <=> InFlight(s)
    BY <1>1, <2>2 DEF InFlight, ServiceTypeOK
  <2> QED
    BY <1>1, <2>2, <2>3 DEF AloneMeansAlone
<1>4. CASE \E r \in Requests : Serves(r) /\ Middleware(r)
  BY <1>1, <1>4
     DEF Serves, Middleware, Register, Registered, TakeLanguages, OpenFile, ReadFile,
         ReadFails, Load, Loaded, LoadFails, Route, DecodeHeader, Check, Goes, Answers,
         startupVars, shared, answer, AloneMeansAlone, InFlight, Over, ServiceTypeOK
<1>5. CASE \E r \in Requests : Serves(r) /\ Handler(r)
  BY <1>1, <1>5
     DEF Serves, Handler, Handle, Starts, GetWithoutClient, UpdateWithoutClient,
         UpdateWithoutName, Localize, Localized, Dies, Goes, Answers, startupVars, shared,
         answer, serviceVars, AloneMeansAlone, InFlight, Over, ServiceTypeOK
<1>6. CASE \E r \in Requests : stage = "serving" /\ RunBackground(r)
  BY <1>1, <1>6
     DEF RunBackground, Dies, startupVars, shared, answer, AloneMeansAlone, InFlight, Over,
         ServiceTypeOK
<1>7. CASE stage = "serving" /\ MapsCollide
  BY <1>1, <1>7
     DEF MapsCollide, Dies, serviceVars, shared, answer, AloneMeansAlone, InFlight, Over,
         ServiceTypeOK
<1>8. CASE UNCHANGED vars
  BY <1>1, <1>8
     DEF vars, serviceVars, startupVars, shared, answer, AloneMeansAlone, InFlight, Over,
         ServiceTypeOK
<1> QED
  BY <1>2, <1>3, <1>4, <1>5, <1>6, <1>7, <1>8 DEF Next, Serves

(* A bundle that only its own request loads has what the request loaded.   *)
LEMMA BundlesAreFilled ==
    ASSUME ServiceInvariant, [Next]_vars
    PROVE  BundleFills'
<1>1. ServiceTypeOK /\ BundleFills /\ UsesEndInTime
  BY DEF ServiceInvariant
<1>2. CASE StartupNext /\ UNCHANGED serviceVars
  BY <1>1, <1>2, ServiceAssumption
     DEF serviceVars, shared, answer, BundleFills, Routed, UsesEndInTime, InUse,
         ServiceTypeOK
<1>3. CASE \E r \in Requests : stage = "serving" /\ Arrive(r)
  BY <1>1, <1>3, ServiceAssumption
     DEF Arrive, Goes, startupVars, answer, BundleFills, Routed, UsesEndInTime, InUse,
         ServiceTypeOK
<1>4. CASE \E r \in Requests : Serves(r) /\ Middleware(r)
  BY <1>1, <1>4, ServiceAssumption
     DEF Serves, Middleware, Register, Registered, TakeLanguages, OpenFile, ReadFile,
         ReadFails, Load, Loaded, LoadFails, Route, DecodeHeader, Check, Goes, Answers,
         startupVars, shared, answer, BundleFills, Routed, UsesEndInTime, InUse,
         ServiceTypeOK
<1>5. CASE \E r \in Requests : Serves(r) /\ Handler(r)
  BY <1>1, <1>5, ServiceAssumption
     DEF Serves, Handler, Handle, Starts, GetWithoutClient, UpdateWithoutClient,
         UpdateWithoutName, Localize, Localized, Dies, Goes, Answers, startupVars, shared,
         answer, serviceVars, BundleFills, Routed, UsesEndInTime, InUse, ServiceTypeOK
<1>6. CASE \E r \in Requests : stage = "serving" /\ RunBackground(r)
  BY <1>1, <1>6, ServiceAssumption
     DEF RunBackground, Dies, startupVars, shared, answer, BundleFills, Routed,
         UsesEndInTime, InUse, ServiceTypeOK
<1>7. CASE stage = "serving" /\ MapsCollide
  BY <1>1, <1>7, ServiceAssumption
     DEF MapsCollide, Dies, serviceVars, shared, answer, BundleFills, Routed,
         UsesEndInTime, InUse, ServiceTypeOK
<1>8. CASE UNCHANGED vars
  BY <1>1, <1>8, ServiceAssumption
     DEF vars, serviceVars, startupVars, shared, answer, BundleFills, Routed,
         UsesEndInTime, InUse, ServiceTypeOK
<1> QED
  BY <1>2, <1>3, <1>4, <1>5, <1>6, <1>7, <1>8 DEF Next, Serves

(* Nobody but the one request decodes a header while it is alone.          *)
LEMMA HeadersAreKept ==
    ASSUME ServiceInvariant, [Next]_vars
    PROVE  HeadersAreDecoded'
<1>1. ServiceTypeOK /\ HeadersAreDecoded /\ AloneMeansAlone
  BY DEF ServiceInvariant
<1>2. CASE StartupNext /\ UNCHANGED serviceVars
  BY <1>1, <1>2
     DEF serviceVars, shared, answer, HeadersAreDecoded, Judged, AloneMeansAlone, InFlight,
         Over, ResultsOf, ServiceTypeOK
<1>3. CASE \E r \in Requests : stage = "serving" /\ Arrive(r)
  BY <1>1, <1>3
     DEF Arrive, Goes, startupVars, answer, HeadersAreDecoded, Judged, AloneMeansAlone,
         InFlight, Over, ResultsOf, ServiceTypeOK
<1>4. CASE \E r \in Requests : Serves(r) /\ Middleware(r)
  <2>1. PICK r \in Requests : Serves(r) /\ Middleware(r)
    BY <1>4
  <2>2. CASE Register(r) \/ Registered(r) \/ TakeLanguages(r) \/ OpenFile(r) \/ ReadFile(r)
             \/ ReadFails(r) \/ Load(r) \/ Loaded(r) \/ LoadFails(r)
    BY <1>1, <2>2
       DEF Register, Registered, TakeLanguages, OpenFile, ReadFile, ReadFails, Load,
           Loaded, LoadFails, Goes, shared, answer, HeadersAreDecoded, Judged,
           ServiceTypeOK
  <2>3. CASE Route(r)
    BY <1>1, <2>3 DEF Route, Goes, shared, HeadersAreDecoded, Judged, ServiceTypeOK
  <2>4. CASE DecodeHeader(r)
    <3>1. PICK h \in Headers :
            /\ header' = [header EXCEPT ![r] = h]
            /\ auth' = IF h = "silent" THEN auth ELSE h = "completed"
      BY <2>4 DEF DecodeHeader
    <3>2. /\ pc[r] = "header" /\ pc' = [pc EXCEPT ![r] = "check"]
          /\ UNCHANGED <<kind, result, alone>>
      BY <2>4 DEF DecodeHeader, Goes
    <3>3. \A s \in Requests \ {r} : alone[s] => pc[s] # "check"
      BY <1>1, <3>2 DEF AloneMeansAlone, InFlight, Over
    <3>4. \A s \in Requests \ {r} :
            /\ pc'[s] \notin Judged => header'[s] = "silent"
            /\ alone'[s] /\ header'[s] # "silent" /\ pc'[s] = "check" =>
                  (auth' <=> header'[s] = "completed")
            /\ alone'[s] /\ kind'[s] # "gateway" /\ pc'[s] \in {"handler", "message", "translating"}
                  => header'[s] # "completed"
            /\ pc'[s] \in {"message", "translating"} => result'[s] # "Refused"
      BY <1>1, <3>1, <3>2, <3>3 DEF HeadersAreDecoded, ServiceTypeOK
    <3>5. pc'[r] = "check" /\ header'[r] = h /\ "check" \in Judged
      BY <1>1, <3>1, <3>2 DEF Judged, ServiceTypeOK
    <3>6. header'[r] # "silent" => (auth' <=> header'[r] = "completed")
      BY <3>1, <3>5
    <3> QED
      BY <3>4, <3>5, <3>6 DEF HeadersAreDecoded, ServiceTypeOK
  <2>5. CASE Check(r)
    BY <1>1, <2>5 DEF Check, Goes, Answers, shared, HeadersAreDecoded, Judged,
                      ServiceTypeOK
  <2> QED
    BY <2>1, <2>2, <2>3, <2>4, <2>5 DEF Middleware
<1>5. CASE \E r \in Requests : Serves(r) /\ Handler(r)
  <2>1. PICK r \in Requests : Serves(r) /\ Handler(r)
    BY <1>5
  <2>2. CASE Handle(r)
    <3>1. PICK res \in ResultsOf(kind[r]) :
            /\ \/ Answers(r, "handler", res)
               \/ /\ Goes(r, "handler", "message")
                  /\ result' = [result EXCEPT ![r] = res]
            /\ UNCHANGED <<auth, kind, header, alone>>
      BY <2>2 DEF Handle, shared
    <3>2. res # "Refused"
      BY <1>1 DEF ResultsOf, Kinds, ServiceTypeOK
    <3> QED
      BY <1>1, <3>1, <3>2 DEF Answers, Goes, HeadersAreDecoded, Judged, ServiceTypeOK
  <2>3. CASE GetWithoutClient(r) \/ UpdateWithoutClient(r) \/ UpdateWithoutName(r)
             \/ Localize(r) \/ Localized(r)
    BY <1>1, <2>3
       DEF GetWithoutClient, UpdateWithoutClient, UpdateWithoutName, Localize, Localized,
           Goes, Answers, shared, answer, serviceVars, HeadersAreDecoded, Judged,
           ServiceTypeOK
  <2> QED
    BY <2>1, <2>2, <2>3 DEF Handler
<1>6. CASE \E r \in Requests : stage = "serving" /\ RunBackground(r)
  BY <1>1, <1>6
     DEF RunBackground, Dies, startupVars, shared, answer, HeadersAreDecoded, Judged,
         AloneMeansAlone, InFlight, Over, ResultsOf, ServiceTypeOK
<1>7. CASE stage = "serving" /\ MapsCollide
  BY <1>1, <1>7
     DEF MapsCollide, Dies, serviceVars, shared, answer, HeadersAreDecoded, Judged,
         AloneMeansAlone, InFlight, Over, ResultsOf, ServiceTypeOK
<1>8. CASE UNCHANGED vars
  BY <1>1, <1>8
     DEF vars, serviceVars, startupVars, shared, answer, HeadersAreDecoded, Judged,
         AloneMeansAlone, InFlight, Over, ResultsOf, ServiceTypeOK
<1> QED
  BY <1>2, <1>3, <1>4, <1>5, <1>6, <1>7, <1>8 DEF Next, Serves

(* The gateway's data says completed only after a header did.              *)
LEMMA RefusalsAreKept ==
    ASSUME ServiceInvariant, [Next]_vars
    PROVE  RefusalsAreAskedFor'
<1>1. ServiceTypeOK /\ HeadersAreDecoded /\ RefusalsAreAskedFor
  BY DEF ServiceInvariant
<1>2. CASE StartupNext /\ UNCHANGED serviceVars
  BY <1>1, <1>2
     DEF serviceVars, shared, answer, RefusalsAreAskedFor, HeadersAreDecoded, Judged,
         ServiceTypeOK
<1>3. CASE \E r \in Requests : stage = "serving" /\ Arrive(r)
  BY <1>1, <1>3
     DEF Arrive, Goes, startupVars, answer, RefusalsAreAskedFor, HeadersAreDecoded, Judged,
         ServiceTypeOK
<1>4. CASE \E r \in Requests : Serves(r) /\ Middleware(r)
  <2>1. PICK r \in Requests : Serves(r) /\ Middleware(r)
    BY <1>4
  <2>2. CASE DecodeHeader(r)
    <3>1. PICK h \in Headers :
            /\ header' = [header EXCEPT ![r] = h]
            /\ auth' = IF h = "silent" THEN auth ELSE h = "completed"
      BY <2>2 DEF DecodeHeader
    <3>2. header[r] = "silent"
      BY <1>1, <2>2 DEF DecodeHeader, Goes, HeadersAreDecoded, Judged, ServiceTypeOK
    <3>3. CASE h = "completed"
      BY <1>1, <3>1, <3>3 DEF RefusalsAreAskedFor, ServiceTypeOK
    <3>4. CASE h # "completed"
      BY <1>1, <3>1, <3>2, <3>4 DEF RefusalsAreAskedFor, ServiceTypeOK
    <3> QED
      BY <3>3, <3>4
  <2>3. CASE ~DecodeHeader(r)
    <3>1. UNCHANGED <<auth, header>>
      BY <2>1, <2>3
         DEF Middleware, Register, Registered, TakeLanguages, OpenFile, ReadFile,
             ReadFails, Load, Loaded, LoadFails, Route, Check, shared, answer
    <3> QED
      BY <1>1, <3>1 DEF RefusalsAreAskedFor, ServiceTypeOK
  <2> QED
    BY <2>2, <2>3
<1>5. CASE \E r \in Requests : Serves(r) /\ Handler(r)
  BY <1>1, <1>5
     DEF Serves, Handler, Handle, Starts, GetWithoutClient, UpdateWithoutClient,
         UpdateWithoutName, Localize, Localized, Dies, Goes, Answers, startupVars, shared,
         answer, serviceVars, RefusalsAreAskedFor, HeadersAreDecoded, Judged, ServiceTypeOK
<1>6. CASE \E r \in Requests : stage = "serving" /\ RunBackground(r)
  BY <1>1, <1>6
     DEF RunBackground, Dies, startupVars, shared, answer, RefusalsAreAskedFor,
         HeadersAreDecoded, Judged, ServiceTypeOK
<1>7. CASE stage = "serving" /\ MapsCollide
  BY <1>1, <1>7
     DEF MapsCollide, Dies, serviceVars, shared, answer, RefusalsAreAskedFor,
         HeadersAreDecoded, Judged, ServiceTypeOK
<1>8. CASE UNCHANGED vars
  BY <1>1, <1>8
     DEF vars, serviceVars, startupVars, shared, answer, RefusalsAreAskedFor,
         HeadersAreDecoded, Judged, ServiceTypeOK
<1> QED
  BY <1>2, <1>3, <1>4, <1>5, <1>6, <1>7, <1>8 DEF Next, Serves

(* Found is decided once, by the request's own bundle.                     *)
LEMMA AnswersAreTranslated ==
    ASSUME ServiceInvariant, [Next]_vars
    PROVE  AloneIsTranslated'
<1>1. ServiceTypeOK /\ AloneIsTranslated /\ BundleFills /\ UsesEndInTime
  BY DEF ServiceInvariant
<1>2. CASE StartupNext /\ UNCHANGED serviceVars
  BY <1>1, <1>2
     DEF serviceVars, shared, answer, AloneIsTranslated, HasMessage, Untranslated,
         BundleFills, Routed, UsesEndInTime, InUse, InFlight, Over, ServiceTypeOK
<1>3. CASE \E r \in Requests : stage = "serving" /\ Arrive(r)
  BY <1>1, <1>3
     DEF Arrive, Goes, startupVars, answer, AloneIsTranslated, HasMessage, Untranslated,
         BundleFills, Routed, UsesEndInTime, InUse, InFlight, Over, ServiceTypeOK
<1>4. CASE \E r \in Requests : Serves(r) /\ Middleware(r)
  BY <1>1, <1>4
     DEF Serves, Middleware, Register, Registered, TakeLanguages, OpenFile, ReadFile,
         ReadFails, Load, Loaded, LoadFails, Route, DecodeHeader, Check, Goes, Answers,
         startupVars, shared, answer, AloneIsTranslated, HasMessage, Untranslated,
         BundleFills, Routed, UsesEndInTime, InUse, InFlight, Over, ServiceTypeOK
<1>5. CASE \E r \in Requests : Serves(r) /\ Handler(r)
  BY <1>1, <1>5
     DEF Serves, Handler, Handle, Starts, GetWithoutClient, UpdateWithoutClient,
         UpdateWithoutName, Localize, Localized, Dies, Goes, Answers, startupVars, shared,
         answer, serviceVars, AloneIsTranslated, HasMessage, Untranslated, BundleFills,
         Routed, UsesEndInTime, InUse, InFlight, Over, ServiceTypeOK
<1>6. CASE \E r \in Requests : stage = "serving" /\ RunBackground(r)
  BY <1>1, <1>6
     DEF RunBackground, Dies, startupVars, shared, answer, AloneIsTranslated, HasMessage,
         Untranslated, BundleFills, Routed, UsesEndInTime, InUse, InFlight, Over,
         ServiceTypeOK
<1>7. CASE stage = "serving" /\ MapsCollide
  BY <1>1, <1>7
     DEF MapsCollide, Dies, serviceVars, shared, answer, AloneIsTranslated, HasMessage,
         Untranslated, BundleFills, Routed, UsesEndInTime, InUse, InFlight, Over,
         ServiceTypeOK
<1>8. CASE UNCHANGED vars
  BY <1>1, <1>8
     DEF vars, serviceVars, startupVars, shared, answer, AloneIsTranslated, HasMessage,
         Untranslated, BundleFills, Routed, UsesEndInTime, InUse, InFlight, Over,
         ServiceTypeOK
<1> QED
  BY <1>2, <1>3, <1>4, <1>5, <1>6, <1>7, <1>8 DEF Next, Serves

(* An answer is a refusal only by Check.                                   *)
LEMMA HeadersDecide ==
    ASSUME ServiceInvariant, [Next]_vars
    PROVE  OwnHeaderDecides'
<1>1. ServiceTypeOK /\ OwnHeaderDecides /\ HeadersAreDecoded /\ RefusalsAreAskedFor
  BY DEF ServiceInvariant
<1>2. CASE StartupNext /\ UNCHANGED serviceVars
  BY <1>1, <1>2
     DEF serviceVars, shared, answer, OwnHeaderDecides, HeadersAreDecoded, Judged,
         RefusalsAreAskedFor, StatusOf, InFlight, Over, ServiceTypeOK
<1>3. CASE \E r \in Requests : stage = "serving" /\ Arrive(r)
  BY <1>1, <1>3
     DEF Arrive, Goes, startupVars, answer, OwnHeaderDecides, HeadersAreDecoded, Judged,
         RefusalsAreAskedFor, StatusOf, InFlight, Over, ServiceTypeOK
<1>4. CASE \E r \in Requests : Serves(r) /\ Middleware(r)
  BY <1>1, <1>4
     DEF Serves, Middleware, Register, Registered, TakeLanguages, OpenFile, ReadFile,
         ReadFails, Load, Loaded, LoadFails, Route, DecodeHeader, Check, Goes, Answers,
         startupVars, shared, answer, OwnHeaderDecides, HeadersAreDecoded, Judged,
         RefusalsAreAskedFor, StatusOf, InFlight, Over, ServiceTypeOK
<1>5. CASE \E r \in Requests : Serves(r) /\ Handler(r)
  BY <1>1, <1>5
     DEF Serves, Handler, Handle, Starts, GetWithoutClient, UpdateWithoutClient,
         UpdateWithoutName, Localize, Localized, Dies, Goes, Answers, startupVars, shared,
         answer, serviceVars, OwnHeaderDecides, HeadersAreDecoded, Judged,
         RefusalsAreAskedFor, StatusOf, InFlight, Over, ServiceTypeOK
<1>6. CASE \E r \in Requests : stage = "serving" /\ RunBackground(r)
  BY <1>1, <1>6
     DEF RunBackground, Dies, startupVars, shared, answer, OwnHeaderDecides,
         HeadersAreDecoded, Judged, RefusalsAreAskedFor, StatusOf, InFlight, Over,
         ServiceTypeOK
<1>7. CASE stage = "serving" /\ MapsCollide
  BY <1>1, <1>7
     DEF MapsCollide, Dies, serviceVars, shared, answer, OwnHeaderDecides,
         HeadersAreDecoded, Judged, RefusalsAreAskedFor, StatusOf, InFlight, Over,
         ServiceTypeOK
<1>8. CASE UNCHANGED vars
  BY <1>1, <1>8
     DEF vars, serviceVars, startupVars, shared, answer, OwnHeaderDecides,
         HeadersAreDecoded, Judged, RefusalsAreAskedFor, StatusOf, InFlight, Over,
         ServiceTypeOK
<1> QED
  BY <1>2, <1>3, <1>4, <1>5, <1>6, <1>7, <1>8 DEF Next, Serves

(* Of two requests that use one map, one is not alone.                     *)
LEMMA DeathsHaveCauses ==
    ASSUME ServiceInvariant, [Next]_vars
    PROVE  DeathHasACause'
<1>1. ServiceTypeOK /\ DeathHasACause /\ IdleUntilServing /\ UsesEndInTime /\ AloneMeansAlone
  BY DEF ServiceInvariant
<1>2. CASE StartupNext /\ UNCHANGED serviceVars
  BY <1>1, <1>2
     DEF serviceVars, shared, answer, StartupNext, Advance, InitLogger, InitHTTPClient,
         InitPostgresDB, ConnectKafka, ConnectRedis, PingRedis, StartRouter, StepFails,
         Get, Fails, DeathHasACause, IdleUntilServing, UsesEndInTime, InUse,
         AloneMeansAlone, InFlight, Over, Collide, ServiceTypeOK
<1>3. CASE \E r \in Requests : stage = "serving" /\ Arrive(r)
  BY <1>1, <1>3
     DEF Arrive, Goes, startupVars, answer, DeathHasACause, IdleUntilServing,
         UsesEndInTime, InUse, AloneMeansAlone, InFlight, Over, Collide, ServiceTypeOK
<1>4. CASE \E r \in Requests : Serves(r) /\ Middleware(r)
  BY <1>1, <1>4
     DEF Serves, Middleware, Register, Registered, TakeLanguages, OpenFile, ReadFile,
         ReadFails, Load, Loaded, LoadFails, Route, DecodeHeader, Check, Goes, Answers,
         startupVars, shared, answer, DeathHasACause, IdleUntilServing, UsesEndInTime,
         InUse, AloneMeansAlone, InFlight, Over, Collide, ServiceTypeOK
<1>5. CASE \E r \in Requests : Serves(r) /\ Handler(r)
  BY <1>1, <1>5
     DEF Serves, Handler, Handle, Starts, GetWithoutClient, UpdateWithoutClient,
         UpdateWithoutName, Localize, Localized, Dies, Goes, Answers, startupVars, shared,
         answer, serviceVars, DeathHasACause, IdleUntilServing, UsesEndInTime, InUse,
         AloneMeansAlone, InFlight, Over, Collide, ServiceTypeOK
<1>6. CASE \E r \in Requests : stage = "serving" /\ RunBackground(r)
  BY <1>1, <1>6
     DEF RunBackground, Dies, startupVars, shared, answer, DeathHasACause,
         IdleUntilServing, UsesEndInTime, InUse, AloneMeansAlone, InFlight, Over, Collide,
         ServiceTypeOK
<1>7. CASE stage = "serving" /\ MapsCollide
  BY <1>1, <1>7
     DEF MapsCollide, Dies, serviceVars, shared, answer, DeathHasACause, IdleUntilServing,
         UsesEndInTime, InUse, AloneMeansAlone, InFlight, Over, Collide, ServiceTypeOK
<1>8. CASE UNCHANGED vars
  BY <1>1, <1>8
     DEF vars, serviceVars, startupVars, shared, answer, DeathHasACause, IdleUntilServing,
         UsesEndInTime, InUse, AloneMeansAlone, InFlight, Over, Collide, ServiceTypeOK
<1> QED
  BY <1>2, <1>3, <1>4, <1>5, <1>6, <1>7, <1>8 DEF Next, Serves

(* Requests are served only by a router that runs.                         *)
LEMMA IdlenessIsKept ==
    ASSUME ServiceInvariant, [Next]_vars
    PROVE  IdleUntilServing'
<1>1. ServiceTypeOK /\ IdleUntilServing
  BY DEF ServiceInvariant
<1>2. CASE StartupNext /\ UNCHANGED serviceVars
  BY <1>1, <1>2
     DEF serviceVars, StartupNext, Advance, InitLogger, InitHTTPClient, InitPostgresDB,
         ConnectKafka, ConnectRedis, PingRedis, StartRouter, StepFails, Get, Fails,
         IdleUntilServing, ServiceTypeOK
<1>3. CASE \E r \in Requests : stage = "serving" /\ Arrive(r)
  BY <1>1, <1>3
     DEF Arrive, Goes, startupVars, answer, IdleUntilServing, ServiceTypeOK
<1>4. CASE \E r \in Requests : Serves(r) /\ Middleware(r)
  BY <1>1, <1>4
     DEF Serves, Middleware, Register, Registered, TakeLanguages, OpenFile, ReadFile,
         ReadFails, Load, Loaded, LoadFails, Route, DecodeHeader, Check, Goes, Answers,
         startupVars, shared, answer, IdleUntilServing, ServiceTypeOK
<1>5. CASE \E r \in Requests : Serves(r) /\ Handler(r)
  BY <1>1, <1>5
     DEF Serves, Handler, Handle, Starts, GetWithoutClient, UpdateWithoutClient,
         UpdateWithoutName, Localize, Localized, Dies, Goes, Answers, startupVars, shared,
         answer, serviceVars, IdleUntilServing, ServiceTypeOK
<1>6. CASE \E r \in Requests : stage = "serving" /\ RunBackground(r)
  BY <1>1, <1>6
     DEF RunBackground, Dies, startupVars, shared, answer, IdleUntilServing, ServiceTypeOK
<1>7. CASE stage = "serving" /\ MapsCollide
  BY <1>1, <1>7
     DEF MapsCollide, Dies, serviceVars, shared, answer, IdleUntilServing, ServiceTypeOK
<1>8. CASE UNCHANGED vars
  BY <1>1, <1>8
     DEF vars, serviceVars, startupVars, shared, answer, IdleUntilServing, ServiceTypeOK
<1> QED
  BY <1>2, <1>3, <1>4, <1>5, <1>6, <1>7, <1>8 DEF Next, Serves

(* A process that serves changes none of its handles.                      *)
LEMMA ServingKeepsHandles ==
    ASSUME NEW r \in Requests, Serves(r)
    PROVE  /\ UNCHANGED <<handles, redisUrl, consumers>>
           /\ providers \subseteq providers'
           /\ stage = "serving" /\ stage' \in {"serving", "exited"}
<1>1. CASE Middleware(r)
  BY <1>1
     DEF Serves, Middleware, Register, Registered, TakeLanguages, OpenFile, ReadFile,
         ReadFails, Load, Loaded, LoadFails, Route, DecodeHeader, Check, startupVars, Get
<1>2. CASE Handler(r)
  BY <1>2
     DEF Serves, Handler, Handle, GetWithoutClient, UpdateWithoutClient, UpdateWithoutName,
         Localize, Localized, Dies, startupVars
<1> QED
  BY <1>1, <1>2 DEF Serves

(* A process that serves sets no handles any more.                         *)
LEMMA HandlesAreKept ==
    ASSUME ServiceInvariant, [Next]_vars
    PROVE  HandlesSoFar'
<1>1. ServiceTypeOK /\ HandlesSoFar
  BY DEF ServiceInvariant
<1>2. CASE StartupNext /\ UNCHANGED serviceVars
  BY <1>1, <1>2
     DEF serviceVars, Handles, StartupNext, Advance, InitLogger, InitHTTPClient,
         InitPostgresDB, ConnectKafka, ConnectRedis, PingRedis, StartRouter, StepFails,
         Get, Fails, HandlesSoFar, ServiceTypeOK
<1>3. CASE \E r \in Requests : stage = "serving" /\ Arrive(r)
  BY <1>1, <1>3
     DEF Arrive, Goes, startupVars, answer, HandlesSoFar, ServiceTypeOK
<1>4. CASE \E r \in Requests : Serves(r) /\ Middleware(r)
  BY <1>1, <1>4, ServingKeepsHandles DEF HandlesSoFar
<1>5. CASE \E r \in Requests : Serves(r) /\ Handler(r)
  BY <1>1, <1>5, ServingKeepsHandles DEF HandlesSoFar
<1>6. CASE \E r \in Requests : stage = "serving" /\ RunBackground(r)
  BY <1>1, <1>6
     DEF RunBackground, Dies, startupVars, shared, answer, HandlesSoFar, ServiceTypeOK
<1>7. CASE stage = "serving" /\ MapsCollide
  BY <1>1, <1>7
     DEF MapsCollide, Dies, serviceVars, shared, answer, HandlesSoFar, ServiceTypeOK
<1>8. CASE UNCHANGED vars
  BY <1>1, <1>8
     DEF vars, serviceVars, startupVars, shared, answer, HandlesSoFar, ServiceTypeOK
<1> QED
  BY <1>2, <1>3, <1>4, <1>5, <1>6, <1>7, <1>8 DEF Next, Serves

(* Nobody leaves the types.                                                *)
LEMMA StatusesAreKnown == \A res \in Results : StatusOf(res) \in Statuses
BY DEF Results, Errors, StatusOf, Statuses

LEMMA ResultsAreKnown == \A k \in Kinds : ResultsOf(k) \subseteq Results
BY DEF Results, Errors, ResultsOf, Kinds

(* What an action of a request's goroutine does to its answer.             *)
LEMMA AnswersAreTyped ==
    ASSUME ServiceTypeOK, NEW r \in Requests, NEW from, NEW res \in Results,
           Answers(r, from, res)
    PROVE  /\ pc' \in [Requests -> PCs]
           /\ result' \in [Requests -> Results]
           /\ status' \in [Requests -> Statuses]
<1>1. StatusOf(res) \in Statuses
  BY StatusesAreKnown
<1> QED
  BY <1>1 DEF ServiceTypeOK, Answers, Goes, PCs

LEMMA TypesOfMiddleware ==
    ASSUME ServiceInvariant, NEW r \in Requests, Serves(r), Middleware(r)
    PROVE  ServiceTypeOK'
<1>1. ServiceTypeOK /\ StartupTypeOK /\ UsesEndInTime /\ stage = "serving"
  BY DEF ServiceInvariant, ServiceTypeOK, Serves
<1>2. CASE Register(r) \/ Registered(r) \/ Load(r)
  BY <1>1, <1>2
     DEF Register, Registered, Load, Goes, startupVars, shared, answer, ServiceTypeOK,
         StartupTypeOK, PCs
<1>3. CASE TakeLanguages(r) \/ OpenFile(r)
  BY <1>1, <1>3
     DEF TakeLanguages, OpenFile, Goes, startupVars, shared, answer, ServiceTypeOK,
         StartupTypeOK, PCs
<1>4. CASE ReadFile(r)
  BY <1>1, <1>4
     DEF ReadFile, Goes, Get, Configs, answer, ServiceTypeOK, StartupTypeOK, PCs
<1>5. CASE ReadFails(r) \/ LoadFails(r)
  BY <1>1, <1>5, StartupAssumption
     DEF ReadFails, LoadFails, Goes, Fails, shared, answer, ServiceTypeOK, StartupTypeOK,
         PCs
<1>6. CASE Loaded(r)
  <2>1. using[r] \in Requests
    BY <1>1, <1>6 DEF Loaded, Goes, UsesEndInTime, InUse, ServiceTypeOK
  <2> QED
    BY <1>1, <1>6, <2>1
       DEF Loaded, Goes, startupVars, answer, ServiceTypeOK, StartupTypeOK, PCs
<1>7. CASE Route(r)
  BY <1>1, <1>7
     DEF Route, Goes, startupVars, shared, ServiceTypeOK, StartupTypeOK, PCs
<1>8. CASE DecodeHeader(r)
  <2>1. PICK h \in Headers :
          /\ header' = [header EXCEPT ![r] = h]
          /\ auth' = IF h = "silent" THEN auth ELSE h = "completed"
    BY <1>8 DEF DecodeHeader
  <2>2. header' \in [Requests -> Headers] /\ auth' \in BOOLEAN
    BY <1>1, <2>1 DEF ServiceTypeOK
  <2> QED
    BY <1>1, <1>8, <2>2
       DEF DecodeHeader, Goes, startupVars, ServiceTypeOK, StartupTypeOK, PCs
<1>9. CASE Check(r)
  <2>1. "Refused" \in Results
    BY DEF Results
  <2>2. /\ pc' \in [Requests -> PCs] /\ result' \in [Requests -> Results]
        /\ status' \in [Requests -> Statuses]
    <3>1. CASE auth
      BY <1>1, <1>9, <2>1, <3>1, AnswersAreTyped DEF Check
    <3>2. CASE ~auth
      BY <1>1, <1>9, <3>2 DEF Check, Goes, ServiceTypeOK, PCs
    <3> QED
      BY <3>1, <3>2
  <2> QED
    BY <1>1, <1>9, <2>2 DEF Check, startupVars, shared, ServiceTypeOK, StartupTypeOK
<1> QED
  BY <1>2, <1>3, <1>4, <1>5, <1>6, <1>7, <1>8, <1>9 DEF Middleware

LEMMA TypesOfHandler ==
    ASSUME ServiceInvariant, NEW r \in Requests, Serves(r), Handler(r)
    PROVE  ServiceTypeOK'
<1>1. ServiceTypeOK /\ StartupTypeOK /\ stage = "serving"
  BY DEF ServiceInvariant, ServiceTypeOK, Serves
<1>2. CASE Handle(r)
  <2>1. PICK res \in ResultsOf(kind[r]) :
          /\ background' = Starts(r, res)
          /\ \/ Answers(r, "handler", res)
             \/ /\ Goes(r, "handler", "message")
                /\ result' = [result EXCEPT ![r] = res]
                /\ UNCHANGED status
    BY <1>2 DEF Handle
  <2>2. res \in Results
    BY <1>1, ResultsAreKnown DEF ServiceTypeOK
  <2>3. /\ pc' \in [Requests -> PCs] /\ result' \in [Requests -> Results]
        /\ status' \in [Requests -> Statuses]
    <3>1. CASE Answers(r, "handler", res)
      BY <1>1, <2>2, <3>1, AnswersAreTyped
    <3>2. CASE ~Answers(r, "handler", res)
      BY <1>1, <2>1, <2>2, <3>2 DEF Goes, ServiceTypeOK, PCs
    <3> QED
      BY <3>1, <3>2
  <2> QED
    BY <1>1, <1>2, <2>1, <2>3
       DEF Handle, Starts, startupVars, shared, ServiceTypeOK, StartupTypeOK
<1>3. CASE GetWithoutClient(r)
  <2>1. /\ pc' \in [Requests -> PCs] /\ result' \in [Requests -> Results]
        /\ status' \in [Requests -> Statuses]
    BY <1>1, <1>3, AnswersAreTyped DEF GetWithoutClient, Results
  <2> QED
    BY <1>1, <1>3, <2>1
       DEF GetWithoutClient, startupVars, shared, ServiceTypeOK, StartupTypeOK
<1>4. CASE UpdateWithoutClient(r) \/ UpdateWithoutName(r)
  BY <1>1, <1>4
     DEF UpdateWithoutClient, UpdateWithoutName, Dies, Goes, Stages, serviceVars, shared,
         answer, ServiceTypeOK, StartupTypeOK, PCs
<1>5. CASE Localize(r)
  BY <1>1, <1>5
     DEF Localize, Goes, startupVars, shared, answer, ServiceTypeOK, StartupTypeOK, PCs
<1>6. CASE Localized(r)
  <2>1. /\ pc' \in [Requests -> PCs] /\ result' \in [Requests -> Results]
        /\ status' \in [Requests -> Statuses]
    BY <1>1, <1>6, AnswersAreTyped DEF Localized, ServiceTypeOK
  <2>2. found' \in [Requests -> BOOLEAN]
    BY <1>1, <1>6 DEF Localized, ServiceTypeOK
  <2> QED
    BY <1>1, <1>6, <2>1, <2>2 DEF Localized, startupVars, shared, ServiceTypeOK,
                                  StartupTypeOK
<1> QED
  BY <1>2, <1>3, <1>4, <1>5, <1>6 DEF Handler

LEMMA StartupTypesAreKept ==
    ASSUME StartupTypeOK, StartupNext
    PROVE  StartupTypeOK'
<1>1. /\ stage' \in Stages /\ handles' \subseteq Handles /\ providers' \subseteq Configs
      /\ redisUrl' \in Urls /\ consumers' \in BOOLEAN
  BY DEF StartupNext, Advance, InitLogger, InitHTTPClient, InitPostgresDB, ConnectKafka,
         ConnectRedis, PingRedis, StartRouter, StepFails, Get, StartupTypeOK, Stages, Handles,
         Configs
<1>2. failures' = failures \/ Fails
  BY DEF StartupNext, InitLogger, InitHTTPClient, InitPostgresDB, ConnectKafka,
         ConnectRedis, PingRedis, StartRouter, StepFails
<1>3. failures' \in 0 .. MaxFailures
  BY <1>2, StartupAssumption DEF Fails, StartupTypeOK
<1> QED
  BY <1>1, <1>3 DEF StartupTypeOK

LEMMA TypesAreKept ==
    ASSUME ServiceInvariant, [Next]_vars
    PROVE  ServiceTypeOK'
<1>1. ServiceTypeOK /\ StartupTypeOK
  BY DEF ServiceInvariant, ServiceTypeOK
<1>2. CASE StartupNext /\ UNCHANGED serviceVars
  <2>1. StartupTypeOK'
    BY <1>1, <1>2, StartupTypesAreKept
  <2> QED
    BY <1>1, <1>2, <2>1 DEF serviceVars, shared, answer, ServiceTypeOK
<1>3. CASE \E r \in Requests : stage = "serving" /\ Arrive(r)
  <2>1. PICK r \in Requests : Arrive(r)
    BY <1>3
  <2>2. alone' \in [Requests -> BOOLEAN]
    BY <1>1, <2>1 DEF Arrive, ServiceTypeOK
  <2> QED
    BY <1>1, <2>1, <2>2
       DEF Arrive, Goes, startupVars, answer, ServiceTypeOK, StartupTypeOK, PCs
<1>4. CASE \E r \in Requests : Serves(r)
  BY <1>4, TypesOfMiddleware, TypesOfHandler DEF Serves
<1>5. CASE \E r \in Requests : stage = "serving" /\ RunBackground(r)
  BY <1>1, <1>5
     DEF RunBackground, Dies, Stages, startupVars, shared, answer, ServiceTypeOK,
         StartupTypeOK
<1>6. CASE stage = "serving" /\ MapsCollide
  BY <1>1, <1>6
     DEF MapsCollide, Dies, Stages, serviceVars, shared, answer, ServiceTypeOK,
         StartupTypeOK
<1>7. CASE UNCHANGED vars
  BY <1>1, <1>7
     DEF vars, serviceVars, startupVars, shared, answer, ServiceTypeOK, StartupTypeOK
<1> QED
  BY <1>2, <1>3, <1>4, <1>5, <1>6, <1>7 DEF Next
-----------------------------------------------------------------------------
LEMMA InitEstablishesInvariant ==
    ASSUME Init
    PROVE  ServiceInvariant
<1>1. StartupTypeOK /\ HandlesSoFar
  <2>1. 0 \in 0 .. MaxFailures
    BY StartupAssumption
  <2>2. StartupTypeOK
    BY <2>1 DEF Init, StartupInit, StartupTypeOK, Stages
  <2> QED
    BY <2>2 DEF Init, StartupInit, HandlesSoFar
<1>2. ServiceTypeOK
  BY <1>1 DEF Init, ServiceTypeOK, PCs, Kinds, Headers, Results, Errors, Statuses
<1>3. IdleUntilServing /\ UsesEndInTime /\ AloneMeansAlone /\ BundleFills
  BY DEF Init, IdleUntilServing, UsesEndInTime, InUse, AloneMeansAlone, InFlight, Over,
         BundleFills
<1>4. HeadersAreDecoded /\ RefusalsAreAskedFor
  BY DEF Init, HeadersAreDecoded, RefusalsAreAskedFor, Judged
<1>5. AloneIsTranslated /\ OwnHeaderDecides
  BY DEF Init, AloneIsTranslated, OwnHeaderDecides
<1>6. DeathHasACause
  BY DEF Init, StartupInit, DeathHasACause
<1> QED
  BY <1>1, <1>2, <1>3, <1>4, <1>5, <1>6 DEF ServiceInvariant

LEMMA StepKeepsInvariant ==
    ASSUME ServiceInvariant, [Next]_vars
    PROVE  ServiceInvariant'
<1>1. /\ ServiceTypeOK' /\ HandlesSoFar' /\ IdleUntilServing' /\ UsesEndInTime'
      /\ AloneMeansAlone' /\ BundleFills' /\ HeadersAreDecoded' /\ RefusalsAreAskedFor'
  BY TypesAreKept, HandlesAreKept, IdlenessIsKept, UsesAreKept, AloneIsKept,
     BundlesAreFilled, HeadersAreKept, RefusalsAreKept
<1>2. AloneIsTranslated' /\ OwnHeaderDecides' /\ DeathHasACause'
  BY AnswersAreTranslated, HeadersDecide, DeathsHaveCauses
<1> QED
  BY <1>1, <1>2 DEF ServiceInvariant

(* The inductive invariant of startup and requests.                        *)
THEOREM ServiceInvariantHolds == Spec => []ServiceInvariant
<1>1. Init => ServiceInvariant
  BY InitEstablishesInvariant
<1>2. ServiceInvariant /\ [Next]_vars => ServiceInvariant'
  BY StepKeepsInvariant
<1> QED
  BY <1>1, <1>2, PTL DEF Spec

(* Requests and consumers never find a handle unset but the client of a    *)
(* Redis that has no address.                                              *)
THEOREM ServedMeansConnected == Spec => []ServingIsConnected
<1>1. ServiceInvariant => ServingIsConnected
  <2>1. ASSUME ServiceInvariant
        PROVE  ServingIsConnected
    <3>1. StartupTypeOK /\ HandlesSoFar
      BY <2>1 DEF ServiceInvariant, ServiceTypeOK
    <3> QED
      BY <3>1 DEF HandlesSoFar, ServingIsConnected, StartupTypeOK, Handles
  <2> QED
    BY <2>1
<1> QED
  BY <1>1, ServiceInvariantHolds, PTL

(* A request that is alone is answered in words.                           *)
THEOREM AloneMeansTranslated == Spec => []AloneIsTranslated
<1>1. ServiceInvariant => AloneIsTranslated
  BY DEF ServiceInvariant
<1> QED
  BY <1>1, ServiceInvariantHolds, PTL

(* A request that is alone is judged by its own header, and nobody is      *)
(* refused unless some header asks for it.                                 *)
THEOREM OwnHeadersDecide == Spec => []OwnHeaderDecides
<1>1. ServiceInvariant => OwnHeaderDecides
  BY DEF ServiceInvariant
<1> QED
  BY <1>1, ServiceInvariantHolds, PTL

(* A process that serves one request at a time, has an address of Redis    *)
(* and gets no update without a name does not end.                         *)
THEOREM DeathsAreExplained == Spec => []DeathHasACause
<1>1. ServiceInvariant => DeathHasACause
  BY DEF ServiceInvariant
<1> QED
  BY <1>1, ServiceInvariantHolds, PTL
=============================================================================
