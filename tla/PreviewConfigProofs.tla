------------------------ MODULE PreviewConfigProofs ------------------------
(***************************************************************************)
(* What a Caddyfile can make of the limits of a handler, and who can use   *)
(* its management API: proofs for every configuration.                     *)
(***************************************************************************)
EXTENDS PreviewConfig, SequenceTheorems, TLAPS

\* The number options, and what a Caddyfile may have made of them so far.
NumbersOK ==
  /\ num \in [NumberOptions -> Int]
  /\ written \in [Sizes -> Nat]
  /\ format = "caddyfile" =>
       /\ num["max_artifacts"] >= 0
       /\ \A o \in Sizes : written[o] < Limit => num[o] = written[o]

\* After Provision the defaults are in place.
DefaultsOK ==
  /\ written \in [Sizes -> Nat]
  /\ format = "caddyfile" =>
       /\ num["max_artifacts"] > 0
       /\ \A o \in Sizes : written[o] < Limit =>
            num[o] = IF written[o] = 0 THEN Default[o] ELSE written[o]

LimitsInv ==
  /\ phase \in {"parse", "loaded"} => NumbersOK
  /\ phase = "running" => DefaultsOK

\* int64 holds what is below its bound as it is.
LEMMA WrapSmall ==
  ASSUME NEW x \in Nat, x < Limit
  PROVE  Wrap(x) = x
<1>1. Limit \in Nat \ {0}
  BY LimitAssumption
<1>2. \A a \in Nat, b \in Nat \ {0} : a < b => a % b = a
  OBVIOUS
<1>3. (x + Limit) % (2 * Limit) = x + Limit
  BY <1>1, <1>2
<1> QED
  BY <1>1, <1>3 DEF Wrap

LEMMA WrapInt == ASSUME NEW x \in Int PROVE Wrap(x) \in Int
BY LimitAssumption DEF Wrap

LEMMA MultiplierNat == ASSUME NEW unit \in Units PROVE Multiplier(unit) \in Nat
BY LimitAssumption DEF Units, Multiplier

\* Every line read keeps what a Caddyfile may have made of the numbers.
LEMMA ParsingKeeps ==
  ASSUME LimitsInv, Parsing
  PROVE  LimitsInv'
<1>0. phase = "parse" /\ NumbersOK
  BY DEF LimitsInv, Parsing, ReadText, ReadPath, ReadFlag, ReadDuration,
         ReadCount, ReadSize, Malformed, EndOfFile, Parse
<1>1. ASSUME NEW o \in TextOptions, NEW v \in TextValues(o), ReadText(o, v)
      PROVE  LimitsInv'
  BY <1>0, <1>1 DEF ReadText, Parse, LimitsInv, NumbersOK
<1>2. ASSUME NEW p \in Paths, ReadPath(p) PROVE LimitsInv'
  BY <1>0, <1>2 DEF ReadPath, Parse, LimitsInv, NumbersOK
<1>3. ASSUME NEW b \in BOOLEAN, ReadFlag(b) PROVE LimitsInv'
  BY <1>0, <1>3 DEF ReadFlag, Parse, LimitsInv, NumbersOK
<1>4. ASSUME NEW o \in Durations, NEW n \in Numbers, ReadDuration(o, n)
      PROVE  LimitsInv'
  BY <1>0, <1>4, NumbersAssumption
  DEF ReadDuration, Parse, LimitsInv, NumbersOK, NumberOptions, Durations, Sizes
<1>5. ASSUME NEW n \in Numbers, ReadCount(n) PROVE LimitsInv'
  <2>1. CASE format = "json" \/ NonNegative(n)
    BY <1>0, <1>5, <2>1, NumbersAssumption
    DEF ReadCount, Parse, LimitsInv, NumbersOK, NumberOptions, Sizes, NonNegative
  <2>2. CASE ~(format = "json" \/ NonNegative(n))
    BY <1>5, <2>2 DEF ReadCount, LimitsInv
  <2> QED
    BY <2>1, <2>2
<1>6. ASSUME NEW o \in Sizes, NEW n \in Numbers, NEW unit \in Units,
             ReadSize(o, n, unit)
      PROVE  LimitsInv'
  <2>1. CASE format = "json"
    BY <1>0, <1>6, <2>1, NumbersAssumption
    DEF ReadSize, Parse, LimitsInv, NumbersOK, NumberOptions, Sizes
  <2>2. CASE format # "json" /\ NonNegative(n)
    <3> DEFINE x == n * Multiplier(unit)
    <3>1. x \in Nat
      <4>1. n \in Nat
        BY <2>2, LimitAssumption DEF NonNegative
      <4>2. Multiplier(unit) \in Nat
        BY MultiplierNat
      <4> QED
        BY <4>1, <4>2
    <3>2. Wrap(x) \in Int /\ (x < Limit => Wrap(x) = x)
      BY <3>1, WrapSmall, WrapInt
    <3>3. /\ num' = [num EXCEPT ![o] = Wrap(x)]
          /\ written' = [written EXCEPT ![o] = x]
          /\ format' = format /\ phase' = phase
      BY <1>6, <2>2 DEF ReadSize, Parse
    <3> HIDE DEF x
    <3>4. o # "max_artifacts" /\ o \in NumberOptions
      BY DEF Sizes, NumberOptions
    <3>5. NumbersOK'
      BY <1>0, <3>1, <3>2, <3>3, <3>4 DEF NumbersOK, NumberOptions
    <3> QED
      BY <1>0, <3>3, <3>5 DEF LimitsInv
  <2>3. CASE format # "json" /\ ~NonNegative(n)
    BY <1>6, <2>3 DEF ReadSize, LimitsInv
  <2> QED
    BY <2>1, <2>2, <2>3
<1>7. CASE Malformed
  BY <1>7 DEF Malformed, LimitsInv
<1>8. CASE EndOfFile
  BY <1>0, <1>8 DEF EndOfFile, LimitsInv, NumbersOK, fields
<1> QED
  BY <1>1, <1>2, <1>3, <1>4, <1>5, <1>6, <1>7, <1>8 DEF Parsing

\* Provision turns it into limits that can be used, or leaves no handler.
LEMMA ProvisioningKeeps ==
  ASSUME LimitsInv, Provisioning
  PROVE  LimitsInv'
<1>1. CASE Provision
  <2>1. NumbersOK /\ phase' = "running" /\ num' = NumWithDefaults
        /\ written' = written /\ format' = format
    BY <1>1 DEF Provision, Provisioned, LimitsInv
  <2>2. DefaultsOK'
    BY <2>1, DefaultAssumption, LimitAssumption
    DEF NumbersOK, DefaultsOK, NumWithDefaults, Defaulted, NumberOptions, Sizes
  <2> QED
    BY <2>1, <2>2 DEF LimitsInv
<1>2. CASE ~Provision
  BY <1>2 DEF Provisioning, ProvisionRefuses, BadHostRe, BadTemplate, Provisioned,
              PrunerPanics, Cleanup, LimitsInv
<1> QED
  BY <1>1, <1>2

LEMMA LimitsAreInvariant == Spec => []LimitsInv
<1>1. Init => LimitsInv
  <2> SUFFICES ASSUME Init PROVE LimitsInv
    OBVIOUS
  <2>1. phase = "parse" /\ num = [o \in NumberOptions |-> 0]
        /\ written = [o \in Sizes |-> 0]
    BY DEF Init
  <2>2. "max_artifacts" \in NumberOptions /\ Sizes \subseteq NumberOptions
    BY DEF NumberOptions
  <2> QED
    BY <2>1, <2>2 DEF LimitsInv, NumbersOK
<1>2. LimitsInv /\ [Next]_vars => LimitsInv'
  <2> SUFFICES ASSUME LimitsInv, [Next]_vars PROVE LimitsInv'
    OBVIOUS
  <2>1. CASE Parsing
    BY <2>1, ParsingKeeps
  <2>2. CASE Provisioning
    BY <2>2, ProvisioningKeeps
  <2>3. CASE Requesting \/ UNCHANGED vars
    <3>1. UNCHANGED <<phase, format, num, written>>
      BY <2>3 DEF Requesting, Serve, Manage, Named, NotJSON, Answering, vars, fields
    <3> QED
      BY <3>1 DEF LimitsInv, NumbersOK, DefaultsOK
  <2> QED
    BY <2>1, <2>2, <2>3 DEF Next
<1> QED
  BY <1>1, <1>2, PTL DEF Spec

\* Every handler set up from a Caddyfile may hold at least one artifact: the
\* assumption SizeAssumption of ArtifactCache, for any defaults and any
\* numbers written (config.go:81, handler.go:175).
THEOREM CaddyfileLimitsUsable == Spec => []LimitsUsable
<1>1. LimitsInv => LimitsUsable
  BY DEF LimitsInv, DefaultsOK, LimitsUsable
<1> QED
  BY <1>1, LimitsAreInvariant, PTL

\* Its size limits are those written, unless they overflow (config.go:196).
THEOREM CaddyfileSizesAsWritten == Spec => []SizesAsWritten
<1>1. LimitsInv => SizesAsWritten
  BY DEF LimitsInv, DefaultsOK, SizesAsWritten
<1> QED
  BY <1>1, LimitsAreInvariant, PTL

\* The API names previews by the keys that host names give them, for any
\* labels and any way of writing numbers (api.go:51, handler.go:340).
THEOREM ApiNamesHostAlways == Spec => []ApiNamesHost
<1>1. Init => ApiNamesHost
  <2> SUFFICES ASSUME Init PROVE ApiNamesHost
    OBVIOUS
  <2>1. did = [op |-> "none", key |-> NoLabel, pr |-> NoPR]
    BY DEF Init
  <2> QED
    BY <2>1 DEF ApiNamesHost
<1>2. ApiNamesHost /\ [Next]_vars => ApiNamesHost'
  <2> SUFFICES ASSUME ApiNamesHost, [Next]_vars PROVE ApiNamesHost'
    OBVIOUS
  <2>1. ASSUME NEW url \in Urls, NEW m \in Methods, NEW given \in KeysGiven,
               NEW body \in Bodies, Named(url, m, given, body)
        PROVE  ApiNamesHost'
    <3> DEFINE op == Route(url, m, given)
               byPR == body.branch = ""
    <3>1. \/ /\ Valid(body) /\ byPR
             /\ did' = [op |-> op, key |-> Key("pr", Decimal[body.pr]), pr |-> body.pr]
          \/ /\ Valid(body) /\ ~byPR
             /\ did' = [op |-> op, key |-> ApiKey(body), pr |-> NoPR]
          \/ did' = [op |-> "badrequest", key |-> NoLabel, pr |-> NoPR]
      BY <2>1, Zenon DEF Named, Did, ApiKey
    <3>2. body.pr \in DOMAIN Decimal
      BY DEF Bodies
    <3> HIDE DEF op, byPR
    <3>3. CASE byPR /\ body.pr > 0
               /\ did' = [op |-> op, key |-> Key("pr", Decimal[body.pr]), pr |-> body.pr]
      <4>1. body.pr \in 0 .. Limit - 1 /\ Atoi[Decimal[body.pr]] = body.pr
            /\ Decimal[body.pr] \in DOMAIN Atoi
        BY <3>2, <3>3, CodecAssumption, LimitAssumption
      <4>2. HostKey(Decimal[body.pr]) = Key("pr", Decimal[body.pr])
        BY <4>1 DEF HostKey, NonNegative
      <4> QED
        BY <3>3, <4>2 DEF ApiNamesHost
    <3>4. CASE ~(did'.pr > 0) \/ did'.op = "badrequest"
      BY <3>4 DEF ApiNamesHost
    <3> QED
      BY <3>1, <3>3, <3>4 DEF NoPR
  <2>2. ASSUME NEW url \in Urls, NEW label \in Labels \cup {NoLabel}, Serve(url, label)
        PROVE  ApiNamesHost'
    <3>1. \E op \in {"nopreview", "debug", "serve"} : \E key :
            did' = [op |-> op, key |-> key, pr |-> NoPR]
      BY <2>2, Zenon DEF Serve, Did
    <3> QED
      BY <3>1 DEF ApiNamesHost
  <2>3. ASSUME NEW url \in Urls, NEW m \in Methods, NEW given \in KeysGiven,
               Manage(url, m, given) \/ NotJSON(url, m, given)
        PROVE  ApiNamesHost'
    <3>1. did'.op \in {"unauthorized", "status", "notfound", "badrequest"}
      BY <2>3 DEF Manage, NotJSON, Did
    <3> QED
      BY <3>1 DEF ApiNamesHost
  <2>4. CASE Parsing \/ Provisioning \/ UNCHANGED vars
    <3>1. UNCHANGED did
      BY <2>4 DEF Parsing, ReadText, ReadPath, ReadFlag, ReadDuration, ReadCount,
                  ReadSize, Parse, Malformed, EndOfFile, Provisioning,
                  ProvisionRefuses, BadHostRe, BadTemplate, Provision, Provisioned,
                  PrunerPanics, Cleanup, vars
    <3> QED
      BY <3>1 DEF ApiNamesHost
  <2> QED
    BY <2>1, <2>2, <2>3, <2>4 DEF Next, Requesting
<1> QED
  BY <1>1, <1>2, PTL DEF Spec

-----------------------------------------------------------------------------
\* From Provision on api_path names at least one segment.
PathInv ==
  /\ path \in Seq(Segments)
  /\ phase = "running" => path # <<>>

LEMMA PathIsInvariant == Spec => []PathInv
<1>1. Init => PathInv
  <2> SUFFICES ASSUME Init PROVE PathInv
    OBVIOUS
  <2>1. path = <<>> /\ phase = "parse"
    BY Zenon DEF Init
  <2> QED
    BY <2>1 DEF PathInv
<1>2. PathInv /\ [Next]_vars => PathInv'
  <2> SUFFICES ASSUME PathInv, [Next]_vars PROVE PathInv'
    OBVIOUS
  <2>1. CASE Parsing
    <3>1. phase = "parse" /\ phase' \in {"parse", "rejected", "loaded"}
      BY <2>1 DEF Parsing, ReadText, ReadPath, ReadFlag, ReadDuration, ReadCount, ReadSize, Parse,
                  Malformed, EndOfFile
    <3>2. path' \in Paths \/ path' = path
      BY <2>1 DEF Parsing, ReadText, ReadPath, ReadFlag, ReadDuration, ReadCount, ReadSize, Parse,
                  Malformed, EndOfFile, fields
    <3> QED
      BY <3>1, <3>2, PathsAssumption DEF PathInv
  <2>2. ASSUME NEW to, NEW what, Provisioned(to, what) PROVE PathInv'
    BY <2>2, PathsAssumption DEF Provisioned, PathInv
  <2>3. CASE ProvisionRefuses \/ PrunerPanics \/ Cleanup
    BY <2>3 DEF ProvisionRefuses, PrunerPanics, Cleanup, fields, PathInv
  <2>4. CASE Provisioning
    BY <2>2, <2>3, <2>4 DEF Provisioning, BadHostRe, BadTemplate, Provision
  <2>5. CASE Requesting \/ UNCHANGED vars
    <3>1. UNCHANGED <<phase, path>>
      BY <2>5 DEF Requesting, Serve, Manage, Named, NotJSON, Answering, vars, fields
    <3> QED
      BY <3>1 DEF PathInv
  <2> QED
    BY <2>1, <2>4, <2>5 DEF Next
<1> QED
  BY <1>1, <1>2, PTL DEF Spec

\* Who cannot authenticate gets nothing of the API.
LEMMA Unauthorized ==
  ASSUME NEW url, NEW m, NEW given, ~Authentic(given)
  PROVE  Route(url, m, given) \in {"site", "unauthorized"}
<1>1. CASE UnderApi(url)
  <2>1. Route(url, m, given) = "unauthorized"
    BY <1>1, Zenon DEF Route
  <2> QED
    BY <2>1
<1>2. CASE ~UnderApi(url)
  <2>1. Route(url, m, given) = "site"
    BY <1>2, Zenon DEF Route
  <2> QED
    BY <2>1
<1> QED
  BY <1>1, <1>2

\* Who can finds refresh and evict below api_path.
LEMMA Authorized ==
  ASSUME path \in Seq(Segments), NEW given, Authentic(given)
  PROVE  /\ Route(path \o <<"refresh">>, "POST", given) = "refresh"
         /\ Route(path \o <<"refresh">>, "DELETE", given) = "evict"
<1>1. <<"refresh">> \in Seq(Segments) /\ Len(<<"refresh">>) = 1
  <2>1. "refresh" \in Segments
    BY Zenon DEF Segments
  <2> QED
    BY <2>1
<1>2. Len(path) \in Nat /\ \A k \in 1 .. Len(path) : path[k] \in Segments
  BY LenProperties
<1>3. PICK url : url = path \o <<"refresh">>
  OBVIOUS
<1>4. /\ url \in Seq(Segments) /\ Len(url) = Len(path) + 1
      /\ \A i \in 1 .. Len(path) + 1 : url[i] = IF i <= Len(path) THEN path[i] ELSE "refresh"
  <2>1. /\ url \in Seq(Segments) /\ Len(url) = Len(path) + Len(<<"refresh">>)
        /\ \A i \in 1 .. Len(path) + Len(<<"refresh">>) :
             url[i] = IF i <= Len(path) THEN path[i] ELSE <<"refresh">>[i - Len(path)]
    BY <1>1, <1>3, ConcatProperties
  <2>2. ASSUME NEW i \in 1 .. Len(path) + 1, ~(i <= Len(path)) PROVE i - Len(path) = 1
    BY <1>2, <2>2
  <2> QED
    BY <1>1, <1>2, <2>1, <2>2
<1>5. SubSeq(url, 1, Len(path)) = path
  <2>1. PICK s : s = SubSeq(url, 1, Len(path))
    OBVIOUS
  <2>2. \A i \in 1 .. Len(path) : url[i] \in Segments
    BY <1>2, <1>4
  <2>3. /\ s \in Seq(Segments) /\ Len(s) = IF 1 <= Len(path) THEN Len(path) - 1 + 1 ELSE 0
        /\ \A i \in 1 .. Len(path) - 1 + 1 : s[i] = url[1 + i - 1]
    BY <1>2, <2>1, <2>2, SubSeqProperties
  <2>4. Len(s) = Len(path) /\ \A i \in 1 .. Len(path) : s[i] = path[i]
    BY <1>2, <1>4, <2>3
  <2> QED
    BY <2>1, <2>3, <2>4, SeqEqual
<1>6. Subpath(url) = <<"refresh">>
  <2>1. PICK s : s = SubSeq(url, Len(path) + 1, Len(path) + 1)
    OBVIOUS
  <2>2. Len(path) + 1 \in Int /\ \A i \in Len(path) + 1 .. Len(path) + 1 : url[i] \in Segments
    BY <1>2, <1>4
  <2>3. /\ s \in Seq(Segments)
        /\ Len(s) = IF Len(path) + 1 <= Len(path) + 1 THEN Len(path) + 1 - (Len(path) + 1) + 1 ELSE 0
        /\ \A i \in 1 .. Len(path) + 1 - (Len(path) + 1) + 1 : s[i] = url[Len(path) + 1 + i - 1]
    BY <2>1, <2>2, SubSeqProperties
  <2>4. Len(s) = 1 /\ s[1] = "refresh"
    BY <1>2, <1>4, <2>3
  <2>5. s = <<"refresh">>
    BY <1>1, <2>3, <2>4, SeqEqual
  <2> QED
    BY <1>4, <2>1, <2>5 DEF Subpath
<1>7. UnderApi(url)
  BY <1>2, <1>4, <1>5 DEF UnderApi
<1>8. Route(url, "POST", given) = "refresh" /\ Route(url, "DELETE", given) = "evict"
  BY <1>6, <1>7, Zenon DEF Route
<1> QED
  BY <1>3, <1>8

\* What begins with another segment is of the site.
LEMMA Elsewhere ==
  ASSUME path \in Seq(Segments), path # <<>>, NEW url, path[1] # url[1], NEW m, NEW given
  PROVE  Route(url, m, given) = "site"
<1>1. Len(path) \in Nat /\ 1 \in 1 .. Len(path)
  BY LenProperties, EmptySeq
<1>2. ASSUME SubSeq(url, 1, Len(path)) = path PROVE FALSE
  <2> DEFINE S == {url[i] : i \in 1 .. Len(path)}
  <2>1. \A i \in 1 .. Len(path) : url[i] \in S
    OBVIOUS
  <2> HIDE DEF S
  <2>2. \A i \in 1 .. Len(path) - 1 + 1 : SubSeq(url, 1, Len(path))[i] = url[1 + i - 1]
    BY <1>1, <2>1, SubSeqProperties
  <2>3. path[1] = url[1]
    BY <1>1, <1>2, <2>2
  <2> QED
    BY <2>3
<1>3. ~UnderApi(url)
  BY <1>2 DEF UnderApi
<1> QED
  BY <1>3, Zenon DEF Route

\* For any keys, paths and requests: with another key than api_key, or with none set,
\* nobody gets to an operation of the management API; with the key it is found below
\* api_path; and a page whose first segment is another one is never taken for it
\* (handler.go:270, api.go:22, api.go:214).
THEOREM ApiAlwaysGuarded == Spec => []ApiGuarded
<1>1. ASSUME PathInv PROVE ApiGuarded
  <2> SUFFICES ASSUME phase = "running" PROVE ApiGuarded
    BY DEF ApiGuarded
  <2>1. path \in Seq(Segments) /\ path # <<>>
    BY <1>1 DEF PathInv
  <2>2. ASSUME NEW url, NEW m, NEW given, text["api_key"] = "" \/ given # text["api_key"]
        PROVE  Route(url, m, given) \in {"site", "unauthorized"}
    <3>1. ~Authentic(given)
      BY <2>2, Zenon DEF Authentic
    <3> QED
      BY <3>1, Unauthorized
  <2>3. ASSUME text["api_key"] # ""
        PROVE  /\ Route(path \o <<"refresh">>, "POST", text["api_key"]) = "refresh"
               /\ Route(path \o <<"refresh">>, "DELETE", text["api_key"]) = "evict"
    <3>1. Authentic(text["api_key"])
      BY <2>3, Zenon DEF Authentic
    <3> QED
      BY <2>1, <3>1, Authorized
  <2>4. \A url \in Urls : path[1] # url[1] => Route(url, "GET", "") = "site"
    BY <2>1, Elsewhere, Zenon
  <2> QED
    BY <2>2, <2>3, <2>4, Zenon DEF ApiGuarded
<1> QED
  BY <1>1, PathIsInvariant, PTL
=============================================================================
