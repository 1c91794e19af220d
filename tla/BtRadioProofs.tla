----------------------------- MODULE BtRadioProofs -----------------------------
(***************************************************************************)
(* What the radio side of the Bluetooth manager keeps for every depth of   *)
(* its command queue and every number of outstanding requests.             *)
(***************************************************************************)
EXTENDS BtRadio, SequenceTheorems, TLAPS

\* What a switch that is b now will be when all of s has come about, where yes sets it
\* and no clears it.
Final(s, yes, no, b) ==
  \/ \E i \in DOMAIN s : s[i] = yes /\ \A j \in DOMAIN s : j > i => s[j] # no
  \/ b /\ \A i \in DOMAIN s : s[i] # no

\* The flags and the radio as they will be when nothing is outstanding any more.
FinalScanning     == Final(events, "ScanStarted", "ScanStopped", scanning)
FinalAdvertising  == Final(events, "AdvStarted", "AdvStopped", advertising)
FinalDiscoverable == Final(requests, "Discoverable", "Hidden", radio.discoverable)
FinalAdvRequest   == Final(requests, "StartAdv", "StopAdv", FinalAdvertising)

Among(s, x) == \E i \in DOMAIN s : s[i] = x

\* presence_task is inside open_pairing_window or close_pairing_window only with the
\* flag set accordingly, and nobody else writes the flag.
WindowInv ==
  /\ pc \in OpenStep => pairing_mode
  /\ pc \in CloseStep => ~pairing_mode

ScanInv == FinalScanning <=> radio.scan

DiscoverInv == pc \notin OpenStep \cup {"hide"} => (FinalDiscoverable <=> pairing_mode)

\* A connection ends the advertising without a report.  With the window open the end of
\* the connection starts it again; with the window closed a StopAdv comes after every
\* StartAdv, whatever the data sets and disconnections of the open window have posted.
AdvInv ==
  /\ radio.adv => FinalAdvertising
  /\ pairing_mode /\ FinalAdvertising =>
       \/ radio.adv \/ radio.connected
       \/ Among(requests, "StartAdv") \/ Among(requests, "StopAdv")
       \/ Among(events, "Disconnected")
  /\ ~pairing_mode /\ pc \notin {"hide", "stopAdv"} => ~FinalAdvRequest

RadioInv == WindowInv /\ ScanInv /\ DiscoverInv /\ AdvInv

-------------------------------------------------------------------------------
\* What Append and Tail do to Final and Among.
LEMMA AppendFinal ==
  ASSUME NEW S, NEW s \in Seq(S), NEW e \in S, NEW yes, NEW no, yes # no, NEW b \in BOOLEAN
  PROVE  /\ e = yes => Final(Append(s, e), yes, no, b)
         /\ e = no => ~Final(Append(s, e), yes, no, b)
         /\ e \notin {yes, no} => (Final(Append(s, e), yes, no, b) <=> Final(s, yes, no, b))
<1>. DEFINE n == Len(s)
            t == Append(s, e)
<1>1. /\ n \in Nat /\ DOMAIN s = 1 .. n /\ DOMAIN t = 1 .. (n + 1)
      /\ t[n + 1] = e /\ \A i \in 1 .. n : t[i] = s[i]
  OBVIOUS
<1>. HIDE DEF n, t
<1>2. n + 1 \in DOMAIN t /\ \A i \in DOMAIN t : i \in DOMAIN s \/ i = n + 1
  BY <1>1
<1>3. \A j \in DOMAIN t : ~(j > n + 1)
  BY <1>1
<1>4. \A i \in DOMAIN s : i \in DOMAIN t /\ i < n + 1 /\ i # n + 1
  BY <1>1
<1>5. e = yes => Final(t, yes, no, b)
  BY <1>1, <1>2, <1>3 DEF Final
<1>6. ASSUME e = no
      PROVE  ~Final(t, yes, no, b)
  <2>1. t[n + 1] = no
    BY <1>1, <1>6
  <2>2. ASSUME NEW i \in DOMAIN t, t[i] = yes
        PROVE  \E j \in DOMAIN t : j > i /\ t[j] = no
    <3>1. i # n + 1
      BY <2>1, <2>2
    <3>. QED
      BY <3>1, <2>1, <2>2, <1>2, <1>1
  <2>. QED
    BY <2>1, <2>2, <1>2 DEF Final
<1>7. ASSUME e \notin {yes, no}
      PROVE  Final(t, yes, no, b) <=> Final(s, yes, no, b)
  <2>1. \A i \in DOMAIN t : t[i] \in {yes, no} => i \in DOMAIN s /\ t[i] = s[i]
    BY <1>1, <1>2, <1>7
  <2>2. \A i \in DOMAIN s : i \in DOMAIN t /\ t[i] = s[i]
    BY <1>1, <1>4
  <2>3. Final(t, yes, no, b) => Final(s, yes, no, b)
    BY <2>1, <2>2, Zenon DEF Final
  <2>4. Final(s, yes, no, b) => Final(t, yes, no, b)
    BY <2>1, <2>2, Zenon DEF Final
  <2>. QED
    BY <2>3, <2>4
<1>. QED
  BY <1>5, <1>6, <1>7 DEF t

LEMMA TailFinal ==
  ASSUME NEW S, NEW s \in Seq(S), s # << >>, NEW yes, NEW no, yes # no,
         NEW b \in BOOLEAN, NEW c \in BOOLEAN,
         Head(s) = yes => c, Head(s) = no => ~c, Head(s) \notin {yes, no} => (c <=> b)
  PROVE  Final(Tail(s), yes, no, c) <=> Final(s, yes, no, b)
<1>. DEFINE n == Len(s)
            t == Tail(s)
<1>1. /\ n \in Nat \ {0} /\ DOMAIN s = 1 .. n /\ DOMAIN t = 1 .. (n - 1)
      /\ Head(s) = s[1] /\ \A i \in 1 .. (n - 1) : t[i] = s[i + 1]
  OBVIOUS
<1>. HIDE DEF n, t
<1>2. \A i \in DOMAIN t : i + 1 \in DOMAIN s /\ t[i] = s[i + 1] /\ i + 1 > 1
  BY <1>1
<1>3. 1 \in DOMAIN s /\ \A i \in DOMAIN s : i = 1 \/ (i > 1 /\ i - 1 \in DOMAIN t /\ t[i - 1] = s[i])
  BY <1>1
<1>4. \A i, j \in DOMAIN t : j > i <=> j + 1 > i + 1
  BY <1>1
<1>5. \A i, j \in DOMAIN s : j > i <=> j - 1 > i - 1
  BY <1>1
<1>6. (\A i \in DOMAIN s : s[i] # no) <=> s[1] # no /\ \A i \in DOMAIN t : t[i] # no
  BY <1>2, <1>3
<1>7. ASSUME NEW i \in DOMAIN t
      PROVE  (\A j \in DOMAIN t : j > i => t[j] # no)
               <=> (\A j \in DOMAIN s : j > i + 1 => s[j] # no)
  <2>1. i \in Nat /\ DOMAIN t \subseteq Nat /\ DOMAIN s \subseteq Nat
    BY <1>1
  <2>2. ASSUME \A j \in DOMAIN t : j > i => t[j] # no, NEW j \in DOMAIN s, j > i + 1
        PROVE  s[j] # no
    <3>1. j # 1 /\ j - 1 > i
      BY <2>1, <2>2
    <3>2. j - 1 \in DOMAIN t /\ t[j - 1] = s[j]
      BY <1>3, <3>1
    <3>. QED
      BY <2>2, <3>1, <3>2
  <2>3. ASSUME \A j \in DOMAIN s : j > i + 1 => s[j] # no, NEW j \in DOMAIN t, j > i
        PROVE  t[j] # no
    <3>1. j + 1 > i + 1
      BY <2>1, <2>3
    <3>. QED
      BY <1>2, <2>3, <3>1
  <2>. QED
    BY <2>2, <2>3
<1>8. (\A j \in DOMAIN s : j > 1 => s[j] # no) <=> \A i \in DOMAIN t : t[i] # no
  BY <1>2, <1>3
<1>9. Final(t, yes, no, c) => Final(s, yes, no, b)
  <2>1. ASSUME NEW i \in DOMAIN t, t[i] = yes, \A j \in DOMAIN t : j > i => t[j] # no
        PROVE  Final(s, yes, no, b)
    BY <2>1, <1>2, <1>7 DEF Final
  <2>2. ASSUME c, \A i \in DOMAIN t : t[i] # no
        PROVE  Final(s, yes, no, b)
    <3>1. s[1] # no
      BY <2>2, <1>1
    <3>2. CASE s[1] = yes
      BY <3>2, <2>2, <1>3, <1>8 DEF Final
    <3>3. CASE s[1] # yes
      BY <3>1, <3>3, <2>2, <1>1, <1>6 DEF Final
    <3>. QED
      BY <3>2, <3>3
  <2>. QED
    BY <2>1, <2>2 DEF Final
<1>10. Final(s, yes, no, b) => Final(t, yes, no, c)
  <2>1. ASSUME NEW i \in DOMAIN s, s[i] = yes, \A j \in DOMAIN s : j > i => s[j] # no
        PROVE  Final(t, yes, no, c)
    <3>1. CASE i = 1
      BY <3>1, <2>1, <1>1, <1>8 DEF Final
    <3>2. CASE i # 1
      <4>1. i - 1 \in DOMAIN t /\ t[i - 1] = yes /\ i = (i - 1) + 1
        BY <3>2, <2>1, <1>1, <1>3
      <4>. QED
        BY <4>1, <2>1, <1>7 DEF Final
    <3>. QED
      BY <3>1, <3>2
  <2>2. ASSUME b, \A i \in DOMAIN s : s[i] # no
        PROVE  Final(t, yes, no, c)
    BY <2>2, <1>1, <1>3, <1>6 DEF Final
  <2>. QED
    BY <2>1, <2>2 DEF Final
<1>. QED
  BY <1>9, <1>10 DEF t

LEMMA AmongQueues ==
  ASSUME NEW S, NEW s \in Seq(S), NEW e \in S, NEW x
  PROVE  /\ Among(Append(s, e), x) <=> Among(s, x) \/ e = x
         /\ s # << >> => (Among(s, x) <=> Head(s) = x \/ Among(Tail(s), x))
<1>1. Among(Append(s, e), x) <=> Among(s, x) \/ e = x
  <2>1. /\ Len(s) \in Nat /\ DOMAIN s = 1 .. Len(s) /\ DOMAIN Append(s, e) = 1 .. (Len(s) + 1)
        /\ Append(s, e)[Len(s) + 1] = e /\ \A i \in 1 .. Len(s) : Append(s, e)[i] = s[i]
    OBVIOUS
  <2>2. \A i \in 1 .. (Len(s) + 1) : i \in 1 .. Len(s) \/ i = Len(s) + 1
    BY <2>1
  <2>3. \A i \in 1 .. Len(s) : i \in 1 .. (Len(s) + 1)
    BY <2>1
  <2>4. Len(s) + 1 \in 1 .. (Len(s) + 1)
    BY <2>1
  <2>. QED
    BY <2>1, <2>2, <2>3, <2>4, Zenon DEF Among
<1>2. ASSUME s # << >>
      PROVE  Among(s, x) <=> Head(s) = x \/ Among(Tail(s), x)
  <2>1. /\ Len(s) \in Nat \ {0} /\ DOMAIN s = 1 .. Len(s) /\ DOMAIN Tail(s) = 1 .. (Len(s) - 1)
        /\ Head(s) = s[1] /\ \A i \in 1 .. (Len(s) - 1) : Tail(s)[i] = s[i + 1]
    BY <1>2
  <2>2. \A i \in DOMAIN s : i = 1 \/ (i - 1 \in DOMAIN Tail(s) /\ Tail(s)[i - 1] = s[i])
    BY <2>1
  <2>3. \A i \in DOMAIN Tail(s) : i + 1 \in DOMAIN s /\ Tail(s)[i] = s[i + 1]
    BY <2>1
  <2>4. 1 \in DOMAIN s
    BY <2>1
  <2>. QED
    BY <2>1, <2>2, <2>3, <2>4, Zenon DEF Among
<1>. QED
  BY <1>1, <1>2

-------------------------------------------------------------------------------
\* What the three actors do, as far as the invariants are concerned.
LEMMA PostedIs ==
  ASSUME requests \in Seq(Request), NEW e \in Request, NEW f \in Request
  PROVE  /\ Posted(<< >>) => requests' = requests
         /\ Posted(<<e>>) => requests' = Append(requests, e)
         /\ Posted(<<e, f>>) => requests' = Append(Append(requests, e), f)
<1>1. requests \o << >> = requests /\ requests \o <<e>> = Append(requests, e)
  BY AppendIsConcat, ConcatEmptySeq
<1>2. requests \o <<e, f>> = Append(Append(requests, e), f)
  <2>1. <<e>> \in Seq(Request) /\ <<f>> \in Seq(Request) /\ <<e>> \o <<f>> = <<e, f>>
    <3>1. <<e>> \in Seq(Request) /\ <<f>> \in Seq(Request) /\ <<e, f>> \in Seq(Request)
      OBVIOUS
    <3>2. /\ Append(<<e>>, f) \in Seq(Request)
          /\ Len(Append(<<e>>, f)) = 2 /\ Len(<<e, f>>) = 2
          /\ Append(<<e>>, f)[1] = <<e, f>>[1] /\ Append(<<e>>, f)[2] = <<e, f>>[2]
      BY <3>1
    <3>3. \A i \in 1 .. 2 : Append(<<e>>, f)[i] = <<e, f>>[i]
      BY <3>2
    <3>4. Append(<<e>>, f) = <<e, f>>
      BY <3>1, <3>2, <3>3, SeqEqual
    <3>. QED
      BY <3>1, <3>4, AppendIsConcat
  <2>2. Append(requests, e) = requests \o <<e>> /\ Append(requests, e) \in Seq(Request)
    BY <1>1
  <2>3. Append(Append(requests, e), f) = (requests \o <<e>>) \o <<f>>
    BY <2>2, AppendIsConcat
  <2>4. (requests \o <<e>>) \o <<f>> = requests \o (<<e>> \o <<f>>)
    BY <2>1, ConcatAssociative
  <2>. QED
    BY <2>1, <2>3, <2>4
<1>. QED
  BY <1>1, <1>2 DEF Posted

\* Requests that neither final switch of the requests depends on.
Neutral == Request \ {"Discoverable", "Hidden", "StartAdv", "StopAdv"}

PostsNeutral ==
  \/ requests' = requests
  \/ \E e \in Neutral : requests' = Append(requests, e)
  \/ \E e, f \in Neutral : requests' = Append(Append(requests, e), f)

\* A step within one of the two procedures, or outside both.
StaysInside ==
  \/ pc \in OpenStep \ {"discover"} /\ pc' \in OpenStep
  \/ pc \in CloseStep \ {"hide", "stopAdv"} /\ pc' \in (CloseStep \ {"hide", "stopAdv"}) \cup {"mode"}
  \/ pc \notin OpenStep \cup CloseStep /\ pc' \notin OpenStep \cup CloseStep

PresenceEffect ==
  \/ PostsNeutral /\ UNCHANGED pairing_mode /\ StaysInside
  \/ requests' = requests /\ pc = "command" /\ ~pairing_mode /\ pairing_mode' /\ pc' = "resetProbe"
  \/ requests' = requests /\ pc = "command" /\ pairing_mode /\ ~pairing_mode' /\ pc' = "hide"
  \/ /\ requests' = Append(requests, "Discoverable") /\ UNCHANGED pairing_mode
     /\ pc = "discover" /\ pc' = "mode"
  \/ /\ requests' = Append(requests, "Hidden") /\ UNCHANGED pairing_mode
     /\ pc = "hide" /\ pc' = "stopAdv"
  \/ /\ requests' = Append(requests, "StopAdv") /\ UNCHANGED pairing_mode
     /\ pc \in {"stopAdv", "startScan"} /\ pc' \in {"checkScanning", "mode"}

LEMMA PresenceTaskEffect ==
  ASSUME TypeOK, PresenceTask
  PROVE  PresenceEffect /\ UNCHANGED <<events, radio, advertising, scanning>>
<1>. USE DEF PresenceEffect, PostsNeutral, StaysInside, Neutral, Request, OpenStep, CloseStep,
             flags, stackVars
<1>1. requests \in Seq(Request) /\ pairing_mode \in BOOLEAN
  BY DEF TypeOK
<1>2. CASE TakeCommand
  BY <1>1, <1>2 DEF TakeCommand
<1>3. CASE NoCommand \/ Mode
  BY <1>3 DEF NoCommand, Mode
<1>4. CASE ResetProbe \/ UnrequestScan \/ ConfigAdv \/ CheckScanning \/ RequestScan \/ CheckPrivacy
  BY <1>4 DEF ResetProbe, UnrequestScan, ConfigAdv, CheckScanning, RequestScan, CheckPrivacy
<1>5. CASE StopScan
  BY <1>1, <1>5, PostedIs DEF StopScan
<1>6. CASE StartScan
  BY <1>1, <1>6, PostedIs DEF StartScan, FirstScanRequest
<1>7. ASSUME NEW here, NEW request \in Request, NEW next, PostStep(here, request, next)
      PROVE  /\ requests' = Append(requests, request) /\ pc = here /\ pc' = next
             /\ UNCHANGED <<pairing_mode, advertising, scanning, events, radio>>
  BY <1>1, <1>7, PostedIs DEF PostStep
<1>8. CASE OpenPairingWindow
  <2>1. CASE PostStep("adData", "AdvData", "scanRsp") \/ PostStep("scanRsp", "ScanRspData", "discover")
    <3>1. "AdvData" \in Neutral /\ "ScanRspData" \in Neutral
      OBVIOUS
    <3>2. requests' = Append(requests, "AdvData") \/ requests' = Append(requests, "ScanRspData")
      BY <1>7, <2>1
    <3>3. UNCHANGED <<pairing_mode, advertising, scanning, events, radio>>
      BY <1>7, <2>1
    <3>4. pc \in {"adData", "scanRsp"} /\ pc' \in {"scanRsp", "discover"}
      BY <1>7, <2>1
    <3>. QED
      BY <3>1, <3>2, <3>3, <3>4
  <2>2. CASE PostStep("discover", "Discoverable", "mode")
    BY <1>7, <2>2
  <2>. QED
    BY <1>4, <1>5, <1>8, <2>1, <2>2 DEF OpenPairingWindow
<1>9. CASE ClosePairingWindow
  BY <1>4, <1>6, <1>7, <1>9 DEF ClosePairingWindow
<1>10. CASE MaybeStartProbe
  <2>1. CASE PostStep("readName", "ReadRemoteName", "setInFlight")
    <3>1. "ReadRemoteName" \in Neutral
      OBVIOUS
    <3>2. requests' = Append(requests, "ReadRemoteName")
      BY <1>7, <2>1
    <3>3. UNCHANGED <<pairing_mode, advertising, scanning, events, radio>>
      BY <1>7, <2>1
    <3>4. pc = "readName" /\ pc' = "setInFlight"
      BY <1>7, <2>1
    <3>. QED
      BY <3>1, <3>2, <3>3, <3>4
  <2>2. CASE requests' = requests
    BY <1>10, <2>2 DEF MaybeStartProbe, PostStep
  <2>. QED
    BY <1>10, <2>1, <2>2 DEF MaybeStartProbe
<1>. QED
  BY <1>2, <1>3, <1>8, <1>9, <1>10 DEF PresenceTask

CallbackPosts ==
  \/ PostsNeutral
  \/ requests' = Append(requests, "StopAdv")
  \/ requests' = Append(requests, "StartAdv") /\ pairing_mode
  \/ requests' = Append(requests, "Discoverable") /\ pairing_mode

CallbackFlags ==
  /\ events # << >> /\ events' = Tail(events)
  /\ Head(events) = "ScanStarted" => scanning'
  /\ Head(events) = "ScanStopped" => ~scanning'
  /\ Head(events) \notin {"ScanStarted", "ScanStopped"} => scanning' = scanning
  /\ Head(events) = "AdvStarted" => advertising'
  /\ Head(events) = "AdvStopped" => ~advertising'
  /\ Head(events) \notin {"AdvStarted", "AdvStopped"} => advertising' = advertising
  /\ Head(events) = "Disconnected" /\ pairing_mode => requests' = Append(requests, "StartAdv")

LEMMA CallbackEffect ==
  ASSUME TypeOK, Callback
  PROVE  CallbackPosts /\ CallbackFlags /\ UNCHANGED <<pc, pairing_mode, radio>>
<1>. USE DEF CallbackPosts, CallbackFlags, Delivered, flags
<1>1. requests \in Seq(Request) /\ pairing_mode \in BOOLEAN
  BY DEF TypeOK
<1>2. \A e \in Request : Posted(<<e>>) => requests' = Append(requests, e)
  BY <1>1, PostedIs
<1>3. Posted(<< >>) => requests' = requests
  BY <1>1, PostedIs DEF Request
<1>4. /\ {"AdvData", "ScanRspData", "ScanParams", "StartScan"} \subseteq Neutral
      /\ Neutral \subseteq Request
      /\ {"StartAdv", "StopAdv", "Discoverable"} \subseteq Request
  BY DEF Neutral, Request
<1>5. Posted(<<"AdvData", "ScanRspData">>) => PostsNeutral
  <2>1. Posted(<<"AdvData", "ScanRspData">>) =>
          requests' = Append(Append(requests, "AdvData"), "ScanRspData")
    BY <1>1, <1>4, PostedIs
  <2>. QED
    BY <2>1, <1>4 DEF PostsNeutral
<1>6. \A e \in Neutral : Posted(<<e>>) => PostsNeutral
  BY <1>2, <1>4 DEF PostsNeutral
<1>7. requests' = requests => PostsNeutral
  BY DEF PostsNeutral
<1>8. Posted(FirstScanRequest) => CallbackPosts
  BY <1>2, <1>4, <1>6 DEF FirstScanRequest
<1>9. RequestScanMode => CallbackPosts
  BY <1>3, <1>7, <1>8 DEF RequestScanMode
<1>10. CASE OnLocalPrivacySet
  BY <1>5, <1>9, <1>10 DEF OnLocalPrivacySet
<1>11. CASE OnAdvStarted \/ OnScanStartOrStop \/ OnStartFailed \/ OnRemoteNameRead
  BY <1>7, <1>11 DEF OnAdvStarted, OnScanStartOrStop, OnStartFailed, OnRemoteNameRead
<1>12. CASE OnAdvStopped
  BY <1>3, <1>4, <1>6, <1>7, <1>12 DEF OnAdvStopped
<1>13. CASE OnScanParamsSet
  BY <1>4, <1>6, <1>13 DEF OnScanParamsSet
<1>14. ASSUME NEW e \in {"AdvDataSet", "ScanRspDataSet"}, NEW data, OnDataSet(e, data)
       PROVE  CallbackPosts /\ CallbackFlags /\ UNCHANGED <<pc, pairing_mode, radio>>
  BY <1>2, <1>3, <1>4, <1>7, <1>14 DEF OnDataSet
<1>15. CASE OnRenewal("Disconnected", "StartAdv")
  BY <1>2, <1>3, <1>4, <1>7, <1>15 DEF OnRenewal
<1>16. CASE OnRenewal("SppStarted", "Discoverable")
  BY <1>2, <1>3, <1>4, <1>7, <1>16 DEF OnRenewal
<1>. QED
  BY <1>10, <1>11, <1>12, <1>13, <1>14, <1>15, <1>16 DEF Callback

\* Events that say nothing of the scan or the advertising.
Quiet == Event \ {"ScanStarted", "ScanStopped", "AdvStarted", "AdvStopped"}

ReportsQuietly == events' = events \/ \E e \in Quiet : events' = Append(events, e)

Keeps(f) == radio'[f] = radio[f]

RequestEffect(r) ==
  \/ /\ r = "StartAdv" /\ ~radio.adv /\ radio'.adv /\ Keeps("scan") /\ Keeps("discoverable")
     /\ events' = Append(events, "AdvStarted")
  \/ /\ r = "StopAdv" /\ ~radio'.adv /\ Keeps("scan") /\ Keeps("discoverable")
     /\ events' = Append(events, "AdvStopped")
  \/ /\ r = "StartScan" /\ radio'.scan /\ Keeps("adv") /\ Keeps("discoverable")
     /\ events' = Append(events, "ScanStarted")
  \/ /\ r = "StopScan" /\ ~radio'.scan /\ Keeps("adv") /\ Keeps("discoverable")
     /\ events' = Append(events, "ScanStopped")
  \/ r = "Discoverable" /\ radio'.discoverable /\ Keeps("adv") /\ Keeps("scan") /\ ReportsQuietly
  \/ r = "Hidden" /\ ~radio'.discoverable /\ Keeps("adv") /\ Keeps("scan") /\ ReportsQuietly
  \/ /\ r \in Neutral \/ (r = "StartAdv" /\ radio.adv)
     /\ Keeps("adv") /\ Keeps("scan") /\ Keeps("discoverable") /\ ReportsQuietly

LEMMA CarryOutEffect ==
  ASSUME TypeOK, CarryOut
  PROVE  /\ requests # << >> /\ requests' = Tail(requests) /\ Head(requests) \in Request
         /\ UNCHANGED <<pc, pairing_mode, scanning, advertising>>
         /\ radio' \in Radio /\ Keeps("connected")
         /\ events' = events \/ \E e \in Event : events' = Append(events, e)
         /\ RequestEffect(Head(requests))
<1>. DEFINE r == Head(requests)
<1>1. /\ requests # << >> /\ requests' = Tail(requests) /\ r \in Request
      /\ UNCHANGED <<pc, pairing_mode, scanning, advertising>>
      /\ events \in Seq(Event) /\ radio \in Radio
  BY DEF CarryOut, flags, TypeOK
<1>2. PICK o \in Outcomes(r) : radio' = o[1] /\ events' = events \o o[2]
  BY DEF CarryOut
<1>. HIDE DEF r
<1>3. /\ events \o << >> = events
      /\ \A e \in Event : events \o <<e>> = Append(events, e) /\ Append(events, e) \in Seq(Event)
  BY <1>1, AppendIsConcat, ConcatEmptySeq
<1>4. Quiet \subseteq Event
  BY DEF Quiet
<1>5. CASE \/ r \in {"LocalPrivacy", "AdvData", "ScanRspData", "ScanParams"}
           \/ r = "StartAdv" /\ radio.adv
           \/ r = "StartScan" /\ radio.scan
           \/ r = "ReadRemoteName" /\ radio.paging
  <2>1. \E e \in Quiet : o = <<radio, <<e>>>>
    BY <1>2, <1>5 DEF Outcomes, Quiet, Event
  <2>2. radio' = radio /\ ReportsQuietly
    BY <1>2, <1>3, <1>4, <2>1 DEF ReportsQuietly
  <2>3. r \in Neutral \/ (r = "StartAdv" /\ radio.adv)
    BY <1>5 DEF Neutral, Request
  <2>. QED
    BY <1>1, <1>4, <2>2, <2>3 DEF RequestEffect, ReportsQuietly, Keeps, r
<1>6. CASE r = "StartAdv" /\ ~radio.adv
  <2>1. o = <<[radio EXCEPT !.adv = TRUE], <<"AdvStarted">>>> /\ "AdvStarted" \in Event
    BY <1>2, <1>6 DEF Outcomes, Event
  <2>2. radio' = [radio EXCEPT !.adv = TRUE] /\ events' = Append(events, "AdvStarted")
    BY <1>2, <1>3, <2>1
  <2>. QED
    BY <1>1, <1>6, <2>1, <2>2 DEF RequestEffect, Keeps, Radio, r
<1>7. CASE r = "StopAdv"
  <2>1. o = <<[radio EXCEPT !.adv = FALSE], <<"AdvStopped">>>> /\ "AdvStopped" \in Event
    BY <1>2, <1>7 DEF Outcomes, Event
  <2>2. radio' = [radio EXCEPT !.adv = FALSE] /\ events' = Append(events, "AdvStopped")
    BY <1>2, <1>3, <2>1
  <2>. QED
    BY <1>1, <1>7, <2>1, <2>2 DEF RequestEffect, Keeps, Radio, r
<1>8. CASE r = "StartScan" /\ ~radio.scan
  <2>1. o = <<[radio EXCEPT !.scan = TRUE], <<"ScanStarted">>>> /\ "ScanStarted" \in Event
    BY <1>2, <1>8 DEF Outcomes, Event
  <2>2. radio' = [radio EXCEPT !.scan = TRUE] /\ events' = Append(events, "ScanStarted")
    BY <1>2, <1>3, <2>1
  <2>. QED
    BY <1>1, <1>8, <2>1, <2>2 DEF RequestEffect, Keeps, Radio, r
<1>9. CASE r = "StopScan"
  <2>1. o = <<[radio EXCEPT !.scan = FALSE], <<"ScanStopped">>>> /\ "ScanStopped" \in Event
    BY <1>2, <1>9 DEF Outcomes, Event
  <2>2. radio' = [radio EXCEPT !.scan = FALSE] /\ events' = Append(events, "ScanStopped")
    BY <1>2, <1>3, <2>1
  <2>. QED
    BY <1>1, <1>9, <2>1, <2>2 DEF RequestEffect, Keeps, Radio, r
<1>10. CASE r = "Discoverable"
  <2>1. PICK p \in {radio.paging, FALSE} :
          o = <<[radio EXCEPT !.discoverable = TRUE, !.paging = p], << >>>>
    BY <1>2, <1>10 DEF Outcomes
  <2>2. radio' = [radio EXCEPT !.discoverable = TRUE, !.paging = p] /\ events' = events
    BY <1>2, <1>3, <2>1
  <2>. QED
    BY <1>1, <1>10, <2>1, <2>2 DEF RequestEffect, ReportsQuietly, Keeps, Radio, r
<1>11. CASE r = "Hidden"
  <2>1. o = <<[radio EXCEPT !.discoverable = FALSE], << >>>>
    BY <1>2, <1>11 DEF Outcomes
  <2>2. radio' = [radio EXCEPT !.discoverable = FALSE] /\ events' = events
    BY <1>2, <1>3, <2>1
  <2>. QED
    BY <1>1, <1>11, <2>1, <2>2 DEF RequestEffect, ReportsQuietly, Keeps, Radio, r
<1>12. CASE r = "ReadRemoteName" /\ ~radio.paging
  <2>1. o = <<[radio EXCEPT !.paging = TRUE], << >>>>
    BY <1>2, <1>12 DEF Outcomes
  <2>2. radio' = [radio EXCEPT !.paging = TRUE] /\ events' = events
    BY <1>2, <1>3, <2>1
  <2>3. r \in Neutral
    BY <1>12 DEF Neutral, Request
  <2>. QED
    BY <1>1, <1>12, <2>1, <2>2, <2>3 DEF RequestEffect, ReportsQuietly, Keeps, Radio, r
<1>. QED
  BY <1>1, <1>5, <1>6, <1>7, <1>8, <1>9, <1>10, <1>11, <1>12 DEF Request

-------------------------------------------------------------------------------
\* The other steps: a page ends, a phone comes and goes, somebody clicks.
Surroundings == PageEnds \/ Connect \/ Disconnect \/ PairingToggle

LEMMA SurroundingsEffect ==
  ASSUME TypeOK, Surroundings
  PROVE  /\ UNCHANGED <<flags, pc, requests>> /\ radio' \in Radio
         /\ \/ UNCHANGED <<events, radio>>
            \/ /\ events' = Append(events, "RemoteNameRead") /\ Keeps("adv") /\ Keeps("connected")
               /\ Keeps("scan") /\ Keeps("discoverable")
            \/ /\ UNCHANGED events /\ ~radio'.adv /\ radio'.connected
               /\ Keeps("scan") /\ Keeps("discoverable")
            \/ /\ events' = Append(events, "Disconnected") /\ Keeps("adv")
               /\ Keeps("scan") /\ Keeps("discoverable")
BY DEF Surroundings, PageEnds, Connect, Disconnect, PairingToggle, stackVars, TypeOK, Radio, Keeps

LEMMA PostsAreRequests ==
  ASSUME TypeOK, PostsNeutral \/ \E e \in Request : requests' = Append(requests, e)
  PROVE  requests' \in Seq(Request)
<1>1. requests \in Seq(Request) /\ Neutral \subseteq Request
  BY DEF TypeOK, Neutral
<1>2. \A q \in Seq(Request), e \in Request : Append(q, e) \in Seq(Request)
  OBVIOUS
<1>. QED
  BY <1>1, <1>2 DEF PostsNeutral

\* Both queues hold what may be in them.
LEMMA QueueTypesKept ==
  ASSUME TypeOK, [Next]_vars
  PROVE  requests' \in Seq(Request) /\ events' \in Seq(Event) /\ radio' \in Radio
<1>1. {"StartAdv", "StopAdv", "Discoverable", "Hidden"} \subseteq Request
  BY DEF Request
<1>2. {"RemoteNameRead", "Disconnected"} \subseteq Event
  BY DEF Event
<1>3. CASE PresenceTask
  <2>1. PostsNeutral \/ \E e \in Request : requests' = Append(requests, e)
    BY <1>1, <1>3, PresenceTaskEffect DEF PresenceEffect, PostsNeutral
  <2>. QED
    BY <1>3, <2>1, PostsAreRequests, PresenceTaskEffect DEF TypeOK
<1>4. CASE Callback
  <2>1. PostsNeutral \/ \E e \in Request : requests' = Append(requests, e)
    BY <1>1, <1>4, CallbackEffect DEF CallbackPosts
  <2>2. events # << >> /\ events' = Tail(events) /\ radio' = radio
    BY <1>4, CallbackEffect DEF CallbackFlags
  <2>. QED
    BY <2>1, <2>2, PostsAreRequests DEF TypeOK
<1>5. CASE CarryOut
  <2>1. /\ requests # << >> /\ requests' = Tail(requests) /\ radio' \in Radio
        /\ events' = events \/ \E e \in Event : events' = Append(events, e)
    BY <1>5, CarryOutEffect
  <2>. QED
    BY <2>1 DEF TypeOK
<1>6. CASE Surroundings
  <2>1. /\ requests' = requests /\ radio' \in Radio
        /\ events' = events \/ \E e \in Event : events' = Append(events, e)
    BY <1>2, <1>6, SurroundingsEffect
  <2>. QED
    BY <2>1 DEF TypeOK
<1>7. CASE UNCHANGED vars
  BY <1>7 DEF vars, stackVars, TypeOK
<1>. QED
  BY <1>3, <1>4, <1>5, <1>6, <1>7 DEF Next, Bluedroid, Surroundings

FlagTypes ==
  /\ pairing_mode \in BOOLEAN /\ privacy_ready \in BOOLEAN /\ advertising \in BOOLEAN
  /\ scan_requested \in BOOLEAN /\ scanning \in BOOLEAN /\ probe_in_flight \in BOOLEAN
  /\ adv_config_mask \subseteq {"AdvData", "ScanRspData"}
  /\ pc \in {"command", "mode", "probe", "readName", "setInFlight"} \cup OpenStep \cup CloseStep

LEMMA FlagTypesKept ==
  ASSUME FlagTypes, [Next]_vars
  PROVE  FlagTypes'
<1>. USE DEF FlagTypes, flags
<1>1. CASE TakeCommand \/ NoCommand \/ Mode
  BY <1>1 DEF TakeCommand, NoCommand, Mode, OpenStep, CloseStep
<1>2. CASE OpenPairingWindow
  BY <1>2 DEF OpenPairingWindow, ResetProbe, StopScan, UnrequestScan, ConfigAdv, PostStep, OpenStep
<1>3. CASE ClosePairingWindow
  BY <1>3 DEF ClosePairingWindow, CheckScanning, RequestScan, CheckPrivacy, StartScan, PostStep,
              CloseStep
<1>4. CASE MaybeStartProbe
  BY <1>4 DEF MaybeStartProbe, PostStep
<1>5. CASE OnLocalPrivacySet
  BY <1>5 DEF OnLocalPrivacySet, RequestScanMode
<1>6. CASE OnScanParamsSet \/ OnStartFailed
  BY <1>6 DEF OnScanParamsSet, OnStartFailed
<1>7. CASE OnScanStartOrStop
  BY <1>7 DEF OnScanStartOrStop
<1>8. CASE OnAdvStarted
  BY <1>8 DEF OnAdvStarted
<1>9. CASE OnAdvStopped
  BY <1>9 DEF OnAdvStopped
<1>10. CASE OnRemoteNameRead
  BY <1>10 DEF OnRemoteNameRead
<1>11. ASSUME NEW e, NEW x, OnDataSet(e, x)
       PROVE  FlagTypes'
  BY <1>11 DEF OnDataSet
<1>12. ASSUME NEW e, NEW x, OnRenewal(e, x)
       PROVE  FlagTypes'
  BY <1>12 DEF OnRenewal
<1>13. CASE CarryOut \/ Surroundings \/ UNCHANGED vars
  BY <1>13 DEF CarryOut, Surroundings, PageEnds, Connect, Disconnect, PairingToggle, vars
<1>. HIDE DEF FlagTypes
<1>. QED
  BY <1>1, <1>2, <1>3, <1>4, <1>5, <1>6, <1>7, <1>8, <1>9, <1>10, <1>11, <1>12, <1>13
     DEF Next, PresenceTask, Bluedroid, Callback, Surroundings

LEMMA CommandsKept ==
  ASSUME TypeOK, [Next]_vars
  PROVE  cmd_queue' \in Seq(Command) /\ Len(cmd_queue') <= CmdQueueDepth
<1>1. cmd_queue \in Seq(Command) /\ Len(cmd_queue) <= CmdQueueDepth /\ CmdQueueDepth \in Nat
  BY BtRadioAssumption DEF TypeOK
<1>2. CASE TakeCommand
  BY <1>1, <1>2 DEF TakeCommand
<1>3. CASE PairingToggle
  <2>1. (IF pairing_mode THEN "StopPairing" ELSE "StartPairing") \in Command
    BY DEF Command
  <2>. QED
    BY <1>1, <1>3, <2>1 DEF PairingToggle
<1>4. CASE ~TakeCommand /\ ~PairingToggle
  <2>1. cmd_queue' = cmd_queue
    BY <1>4 DEF Next, PresenceTask, NoCommand, OpenPairingWindow, ResetProbe, StopScan,
      UnrequestScan, ConfigAdv, ClosePairingWindow, CheckScanning, RequestScan, CheckPrivacy,
      StartScan, Mode, MaybeStartProbe, PostStep, Bluedroid, CarryOut, PageEnds, Callback,
      OnLocalPrivacySet, OnDataSet, OnAdvStarted, OnAdvStopped, OnScanParamsSet,
      OnScanStartOrStop, OnStartFailed, OnRemoteNameRead, OnRenewal, Connect, Disconnect, vars
  <2>. QED
    BY <1>1, <2>1
<1>. QED
  BY <1>2, <1>3, <1>4

\* The history and the count of inputs keep to their types.
LEMMA HistoryTypesKept ==
  ASSUME TypeOK, [Next]_vars
  PROVE  misread' \in BOOLEAN /\ inputs' \in 0 .. MaxInputs
<1>1. misread \in BOOLEAN /\ scanning \in BOOLEAN /\ inputs \in 0 .. MaxInputs /\ MaxInputs \in Nat
  BY BtRadioAssumption DEF TypeOK
<1>2. misread' = misread \/ misread' = (scanning /\ ScanStopOutstanding)
  BY DEF Next, PresenceTask, Bluedroid, CarryOut, PageEnds, Callback, Connect, Disconnect,
         PairingToggle, vars
<1>3. inputs' = inputs \/ (inputs < MaxInputs /\ inputs' = inputs + 1)
  BY DEF Next, PresenceTask, Bluedroid, CarryOut, PageEnds, Callback, Connect, Disconnect,
         PairingToggle, vars
<1>4. (scanning /\ ScanStopOutstanding) \in BOOLEAN
  BY <1>1 DEF ScanStopOutstanding
<1>5. misread' \in BOOLEAN
  BY <1>1, <1>2, <1>4
<1>6. inputs' \in 0 .. MaxInputs
  BY <1>1, <1>3
<1>. QED
  BY <1>5, <1>6

LEMMA TypeKept ==
  ASSUME TypeOK, [Next]_vars
  PROVE  TypeOK'
<1>1. FlagTypes'
  BY FlagTypesKept DEF TypeOK, FlagTypes
<1>. QED
  BY <1>1, QueueTypesKept, CommandsKept, HistoryTypesKept DEF TypeOK, FlagTypes

LEMMA InitType == Init => TypeOK
<1>. SUFFICES ASSUME Init PROVE TypeOK
  OBVIOUS
<1>1. /\ requests \in Seq(Request) /\ events \in Seq(Event)
      /\ cmd_queue \in Seq(Command) /\ Len(cmd_queue) <= CmdQueueDepth
  BY BtRadioAssumption DEF Init, Request, Event
<1>2. radio \in Radio
  BY DEF Init, Radio
<1>3. /\ pairing_mode \in BOOLEAN /\ privacy_ready \in BOOLEAN /\ advertising \in BOOLEAN
      /\ scan_requested \in BOOLEAN /\ scanning \in BOOLEAN /\ probe_in_flight \in BOOLEAN
  BY DEF Init
<1>4. misread \in BOOLEAN /\ inputs \in 0 .. MaxInputs
  <2>1. misread = FALSE /\ inputs = 0
    BY DEF Init
  <2>2. 0 \in 0 .. MaxInputs
    BY BtRadioAssumption
  <2>. QED
    BY <2>1, <2>2
<1>. QED
  BY <1>1, <1>2, <1>3, <1>4 DEF Init, TypeOK

\* Whatever is clicked, reported and answered in whatever order, the command queue stays
\* within its depth, the stack is asked for and reports what it knows, and presence_task
\* is at one of its calls.
THEOREM RadioTypeCorrect == Spec => []TypeOK
<1>1. TypeOK /\ [Next]_vars => TypeOK'
  BY TypeKept
<1>. QED
  BY <1>1, InitType, PTL DEF Spec

-------------------------------------------------------------------------------
LEMMA WindowStep ==
  ASSUME TypeOK, WindowInv, [Next]_vars
  PROVE  WindowInv'
<1>1. CASE PresenceTask
  BY <1>1, PresenceTaskEffect DEF PresenceEffect, StaysInside, WindowInv, OpenStep, CloseStep
<1>2. CASE ~PresenceTask
  <2>1. UNCHANGED <<pc, pairing_mode>>
    <3>1. CASE Callback
      BY <3>1, CallbackEffect
    <3>2. CASE CarryOut
      BY <3>2, CarryOutEffect
    <3>3. CASE Surroundings
      BY <3>3, SurroundingsEffect DEF flags
    <3>4. CASE UNCHANGED vars
      BY <3>4 DEF vars, flags
    <3>. QED
      BY <1>2, <3>1, <3>2, <3>3, <3>4 DEF Next, Bluedroid, Surroundings
  <2>. QED
    BY <2>1 DEF WindowInv
<1>. QED
  BY <1>1, <1>2

\* What an event does to the two switches that are reported.
LEMMA ReportedSwitches ==
  ASSUME TypeOK, NEW e \in Event
  PROVE  LET grown == Append(events, e)
             scan(s) == Final(s, "ScanStarted", "ScanStopped", scanning)
             adv(s)  == Final(s, "AdvStarted", "AdvStopped", advertising)
         IN  /\ e = "ScanStarted" => scan(grown)
             /\ e = "ScanStopped" => ~scan(grown)
             /\ e \notin {"ScanStarted", "ScanStopped"} => (scan(grown) <=> scan(events))
             /\ e = "AdvStarted" => adv(grown)
             /\ e = "AdvStopped" => ~adv(grown)
             /\ e \notin {"AdvStarted", "AdvStopped"} => (adv(grown) <=> adv(events))
<1>1. events \in Seq(Event) /\ scanning \in BOOLEAN /\ advertising \in BOOLEAN
  BY DEF TypeOK
<1>2. "ScanStarted" # "ScanStopped" /\ "AdvStarted" # "AdvStopped"
  OBVIOUS
<1>. QED
  BY <1>1, <1>2, AppendFinal

\* A callback has the flags catch up with what was reported: nothing final changes.
LEMMA CallbackSwitches ==
  ASSUME TypeOK, TypeOK', Callback
  PROVE  (FinalScanning' <=> FinalScanning) /\ (FinalAdvertising' <=> FinalAdvertising)
<1>1. /\ events \in Seq(Event) /\ scanning \in BOOLEAN /\ advertising \in BOOLEAN
      /\ scanning' \in BOOLEAN /\ advertising' \in BOOLEAN
  BY DEF TypeOK
<1>2. CallbackFlags
  BY CallbackEffect
<1>3. Final(Tail(events), "ScanStarted", "ScanStopped", scanning') <=> FinalScanning
  BY <1>1, <1>2, TailFinal DEF CallbackFlags, FinalScanning
<1>4. Final(Tail(events), "AdvStarted", "AdvStopped", advertising') <=> FinalAdvertising
  BY <1>1, <1>2, TailFinal DEF CallbackFlags, FinalAdvertising
<1>. QED
  BY <1>2, <1>3, <1>4 DEF CallbackFlags, FinalScanning, FinalAdvertising

LEMMA ScanStep ==
  ASSUME TypeOK, TypeOK', ScanInv, [Next]_vars
  PROVE  ScanInv'
<1>1. CASE UNCHANGED <<events, radio, scanning>>
  BY <1>1 DEF ScanInv, FinalScanning
<1>2. CASE PresenceTask
  BY <1>1, <1>2, PresenceTaskEffect
<1>3. CASE Callback
  BY <1>3, CallbackSwitches, CallbackEffect DEF ScanInv
<1>4. CASE CarryOut
  <2>1. scanning' = scanning /\ RequestEffect(Head(requests))
    BY <1>4, CarryOutEffect
  <2>2. CASE ReportsQuietly /\ Keeps("scan")
    <3>1. events' = events \/ \E e \in Quiet : events' = Append(events, e)
      BY <2>2 DEF ReportsQuietly
    <3>2. FinalScanning' <=> FinalScanning
      BY <2>1, <3>1, ReportedSwitches DEF FinalScanning, Quiet
    <3>. QED
      BY <2>2, <3>2 DEF ScanInv, Keeps
  <2>3. CASE Keeps("scan") /\ \E e \in {"AdvStarted", "AdvStopped"} : events' = Append(events, e)
    <3>1. FinalScanning' <=> FinalScanning
      BY <2>1, <2>3, ReportedSwitches DEF FinalScanning, Event
    <3>. QED
      BY <2>3, <3>1 DEF ScanInv, Keeps
  <2>4. CASE radio'.scan /\ events' = Append(events, "ScanStarted")
    BY <2>1, <2>4, ReportedSwitches DEF ScanInv, FinalScanning, Event
  <2>5. CASE ~radio'.scan /\ events' = Append(events, "ScanStopped")
    BY <2>1, <2>5, ReportedSwitches DEF ScanInv, FinalScanning, Event
  <2>. QED
    BY <2>1, <2>2, <2>3, <2>4, <2>5 DEF RequestEffect
<1>5. CASE Surroundings
  <2>1. scanning' = scanning /\ radio'.scan = radio.scan
    BY <1>5, SurroundingsEffect DEF flags, Keeps
  <2>2. events' = events \/ \E e \in {"RemoteNameRead", "Disconnected"} : events' = Append(events, e)
    BY <1>5, SurroundingsEffect
  <2>3. FinalScanning' <=> FinalScanning
    BY <2>1, <2>2, ReportedSwitches DEF FinalScanning, Event
  <2>. QED
    BY <2>1, <2>3 DEF ScanInv
<1>6. CASE UNCHANGED vars
  BY <1>1, <1>6 DEF vars, flags, stackVars
<1>. QED
  BY <1>2, <1>3, <1>4, <1>5, <1>6 DEF Next, Bluedroid, Surroundings

-------------------------------------------------------------------------------
\* What a request does, once posted, to the two switches that are asked for.
LEMMA RequestedSwitches ==
  ASSUME TypeOK, NEW e \in Request, NEW b \in BOOLEAN
  PROVE  LET grown == Append(requests, e)
             disc(s) == Final(s, "Discoverable", "Hidden", b)
             adv(s)  == Final(s, "StartAdv", "StopAdv", b)
         IN  /\ e = "Discoverable" => disc(grown)
             /\ e = "Hidden" => ~disc(grown)
             /\ e \notin {"Discoverable", "Hidden"} => (disc(grown) <=> disc(requests))
             /\ e = "StartAdv" => adv(grown)
             /\ e = "StopAdv" => ~adv(grown)
             /\ e \notin {"StartAdv", "StopAdv"} => (adv(grown) <=> adv(requests))
<1>1. requests \in Seq(Request)
  BY DEF TypeOK
<1>2. "Discoverable" # "Hidden" /\ "StartAdv" # "StopAdv"
  OBVIOUS
<1>. QED
  BY <1>1, <1>2, AppendFinal

LEMMA NeutralPosts ==
  ASSUME TypeOK, PostsNeutral, NEW b \in BOOLEAN
  PROVE  /\ Final(requests', "Discoverable", "Hidden", b) <=> Final(requests, "Discoverable", "Hidden", b)
         /\ Final(requests', "StartAdv", "StopAdv", b) <=> Final(requests, "StartAdv", "StopAdv", b)
         /\ \A x : Among(requests, x) => Among(requests', x)
<1>1. requests \in Seq(Request) /\ Neutral \subseteq Request
  BY DEF TypeOK, Neutral
<1>2. ASSUME NEW q \in Seq(Request), NEW e \in Neutral
      PROVE  /\ Append(q, e) \in Seq(Request)
             /\ Final(Append(q, e), "Discoverable", "Hidden", b) <=> Final(q, "Discoverable", "Hidden", b)
             /\ Final(Append(q, e), "StartAdv", "StopAdv", b) <=> Final(q, "StartAdv", "StopAdv", b)
             /\ \A x : Among(q, x) => Among(Append(q, e), x)
  <2>1. e \in Request /\ e \notin {"Discoverable", "Hidden"} /\ e \notin {"StartAdv", "StopAdv"}
    BY <1>2 DEF Neutral
  <2>2. "Discoverable" # "Hidden" /\ "StartAdv" # "StopAdv"
    OBVIOUS
  <2>3. \A x : Among(q, x) => Among(Append(q, e), x)
    BY <2>1, AmongQueues
  <2>. QED
    BY <2>1, <2>2, <2>3, AppendFinal
<1>3. CASE requests' = requests
  BY <1>3
<1>4. CASE \E e \in Neutral : requests' = Append(requests, e)
  BY <1>1, <1>2, <1>4
<1>5. CASE \E e, f \in Neutral : requests' = Append(Append(requests, e), f)
  <2>1. PICK e \in Neutral, f \in Neutral : requests' = Append(Append(requests, e), f)
    BY <1>5
  <2>. DEFINE q == Append(requests, e)
  <2>2. /\ q \in Seq(Request)
        /\ Final(q, "Discoverable", "Hidden", b) <=> Final(requests, "Discoverable", "Hidden", b)
        /\ Final(q, "StartAdv", "StopAdv", b) <=> Final(requests, "StartAdv", "StopAdv", b)
        /\ \A x : Among(requests, x) => Among(q, x)
    BY <1>1, <1>2
  <2>. HIDE DEF q
  <2>3. /\ Final(Append(q, f), "Discoverable", "Hidden", b) <=> Final(q, "Discoverable", "Hidden", b)
        /\ Final(Append(q, f), "StartAdv", "StopAdv", b) <=> Final(q, "StartAdv", "StopAdv", b)
        /\ \A x : Among(q, x) => Among(Append(q, f), x)
    BY <1>2, <2>2
  <2>4. requests' = Append(q, f)
    BY <2>1 DEF q
  <2>. QED
    BY <2>2, <2>3, <2>4
<1>. QED
  BY <1>3, <1>4, <1>5 DEF PostsNeutral

LEMMA DiscoverStep ==
  ASSUME TypeOK, TypeOK', WindowInv, DiscoverInv, [Next]_vars
  PROVE  DiscoverInv'
<1>. USE DEF DiscoverInv, FinalDiscoverable
<1>1. /\ radio.discoverable \in BOOLEAN /\ radio'.discoverable \in BOOLEAN
      /\ requests \in Seq(Request) /\ pairing_mode \in BOOLEAN
      /\ {"StartAdv", "StopAdv", "Discoverable", "Hidden"} \subseteq Request
  BY DEF TypeOK, Radio, Request
<1>2. CASE PresenceTask
  <2>1. PresenceEffect /\ radio' = radio
    BY <1>2, PresenceTaskEffect
  <2>2. CASE PostsNeutral /\ UNCHANGED pairing_mode /\ StaysInside
    <3>1. FinalDiscoverable' <=> FinalDiscoverable
      BY <1>1, <2>1, <2>2, NeutralPosts
    <3>2. pc' \notin OpenStep \cup {"hide"} => pc \notin OpenStep \cup {"hide"}
      BY <2>2 DEF StaysInside, OpenStep, CloseStep
    <3>. QED
      BY <2>2, <3>1, <3>2
  <2>3. CASE pc' \in OpenStep \cup {"hide"}
    BY <2>3
  <2>4. CASE requests' = Append(requests, "Discoverable") /\ UNCHANGED pairing_mode /\ pc = "discover"
    <3>1. FinalDiscoverable' /\ pairing_mode
      BY <1>1, <2>1, <2>4, RequestedSwitches DEF WindowInv, OpenStep
    <3>. QED
      BY <2>4, <3>1
  <2>5. CASE requests' = Append(requests, "Hidden") /\ UNCHANGED pairing_mode /\ pc = "hide"
    <3>1. ~FinalDiscoverable' /\ ~pairing_mode
      BY <1>1, <2>1, <2>5, RequestedSwitches DEF WindowInv, CloseStep
    <3>. QED
      BY <2>5, <3>1
  <2>6. CASE /\ requests' = Append(requests, "StopAdv") /\ UNCHANGED pairing_mode
             /\ pc \in {"stopAdv", "startScan"}
    <3>1. FinalDiscoverable' <=> FinalDiscoverable
      BY <1>1, <2>1, <2>6, RequestedSwitches
    <3>. QED
      BY <2>6, <3>1 DEF OpenStep
  <2>. QED
    BY <2>1, <2>2, <2>3, <2>4, <2>5, <2>6 DEF PresenceEffect, OpenStep
<1>3. CASE Callback
  <2>1. UNCHANGED <<pc, pairing_mode, radio>> /\ CallbackPosts
    BY <1>3, CallbackEffect
  <2>2. CASE PostsNeutral
    BY <1>1, <2>1, <2>2, NeutralPosts
  <2>3. CASE requests' = Append(requests, "StopAdv") \/ requests' = Append(requests, "StartAdv")
    <3>1. FinalDiscoverable' <=> FinalDiscoverable
      BY <1>1, <2>1, <2>3, RequestedSwitches
    <3>. QED
      BY <2>1, <3>1
  <2>4. CASE requests' = Append(requests, "Discoverable") /\ pairing_mode
    <3>1. FinalDiscoverable'
      BY <1>1, <2>1, <2>4, RequestedSwitches
    <3>. QED
      BY <2>1, <2>4, <3>1
  <2>. QED
    BY <2>1, <2>2, <2>3, <2>4 DEF CallbackPosts
<1>4. CASE CarryOut
  <2>1. /\ requests # << >> /\ requests' = Tail(requests) /\ UNCHANGED <<pc, pairing_mode>>
        /\ RequestEffect(Head(requests))
    BY <1>4, CarryOutEffect
  <2>2. /\ Head(requests) = "Discoverable" => radio'.discoverable
        /\ Head(requests) = "Hidden" => ~radio'.discoverable
        /\ Head(requests) \notin {"Discoverable", "Hidden"} =>
             (radio'.discoverable <=> radio.discoverable)
    BY <2>1 DEF RequestEffect, Keeps, Neutral
  <2>3. FinalDiscoverable' <=> FinalDiscoverable
    BY <1>1, <2>1, <2>2, TailFinal
  <2>. QED
    BY <2>1, <2>3
<1>5. CASE Surroundings
  <2>1. UNCHANGED <<pc, pairing_mode, requests>> /\ radio'.discoverable = radio.discoverable
    BY <1>5, SurroundingsEffect DEF flags, Keeps
  <2>. QED
    BY <2>1
<1>6. CASE UNCHANGED vars
  BY <1>6 DEF vars, flags, stackVars
<1>. QED
  BY <1>2, <1>3, <1>4, <1>5, <1>6 DEF Next, Bluedroid, Surroundings

-------------------------------------------------------------------------------
\* The advertising, step by step: what it will be when the events have been delivered.
LEMMA AdvertisingSwitches ==
  ASSUME TypeOK, TypeOK'
  PROVE  /\ FinalAdvertising \in BOOLEAN /\ FinalAdvertising' \in BOOLEAN
         /\ PresenceTask \/ Callback \/ Surroundings => (FinalAdvertising' <=> FinalAdvertising)
         /\ CarryOut /\ Head(requests) = "StopAdv" => ~FinalAdvertising'
         /\ CarryOut /\ Head(requests) = "StartAdv" /\ ~radio.adv => FinalAdvertising'
         /\ CarryOut /\ (Head(requests) \notin {"StartAdv", "StopAdv"} \/ radio.adv)
                     /\ Head(requests) # "StopAdv" =>
              (FinalAdvertising' <=> FinalAdvertising)
<1>1. FinalAdvertising \in BOOLEAN /\ FinalAdvertising' \in BOOLEAN
  BY DEF FinalAdvertising, Final
<1>2. ASSUME advertising' = advertising,
             events' = events \/ \E e \in Event \ {"AdvStarted", "AdvStopped"} : events' = Append(events, e)
      PROVE  FinalAdvertising' <=> FinalAdvertising
  BY <1>2, ReportedSwitches DEF FinalAdvertising
<1>3. ASSUME PresenceTask \/ Callback \/ Surroundings
      PROVE  FinalAdvertising' <=> FinalAdvertising
  <2>1. ASSUME PresenceTask
        PROVE  FinalAdvertising' <=> FinalAdvertising
    BY <1>2, <2>1, PresenceTaskEffect
  <2>2. ASSUME Callback
        PROVE  FinalAdvertising' <=> FinalAdvertising
    BY <2>2, CallbackSwitches
  <2>3. ASSUME Surroundings
        PROVE  FinalAdvertising' <=> FinalAdvertising
    <3>1. advertising' = advertising
      BY <2>3, SurroundingsEffect DEF flags
    <3>2. events' = events \/ \E e \in {"RemoteNameRead", "Disconnected"} : events' = Append(events, e)
      BY <2>3, SurroundingsEffect
    <3>3. {"RemoteNameRead", "Disconnected"} \subseteq Event \ {"AdvStarted", "AdvStopped"}
      BY DEF Event
    <3>. QED
      BY <1>2, <3>1, <3>2, <3>3
  <2>. QED
    BY <1>3, <2>1, <2>2, <2>3
<1>4. ASSUME CarryOut
      PROVE  /\ Head(requests) = "StopAdv" => ~FinalAdvertising'
             /\ Head(requests) = "StartAdv" /\ ~radio.adv => FinalAdvertising'
             /\ (Head(requests) \notin {"StartAdv", "StopAdv"} \/ radio.adv)
                  /\ Head(requests) # "StopAdv" => (FinalAdvertising' <=> FinalAdvertising)
  <2>1. advertising' = advertising /\ RequestEffect(Head(requests))
    BY <1>4, CarryOutEffect
  <2>2. CASE ReportsQuietly /\ Head(requests) # "StopAdv" /\ (Head(requests) = "StartAdv" => radio.adv)
    <3>1. FinalAdvertising' <=> FinalAdvertising
      BY <1>2, <2>1, <2>2 DEF ReportsQuietly, Quiet
    <3>. QED
      BY <1>1, <1>4, <2>2, <3>1
  <2>3. CASE /\ Head(requests) \in {"StartScan", "StopScan"}
             /\ \E e \in {"ScanStarted", "ScanStopped"} : events' = Append(events, e)
    <3>1. FinalAdvertising' <=> FinalAdvertising
      BY <1>2, <2>1, <2>3 DEF Event
    <3>. QED
      BY <1>1, <1>4, <2>3, <3>1
  <2>4. CASE Head(requests) = "StartAdv" /\ ~radio.adv /\ events' = Append(events, "AdvStarted")
    <3>1. FinalAdvertising'
      BY <2>1, <2>4, ReportedSwitches DEF FinalAdvertising, Event
    <3>. QED
      BY <1>1, <1>4, <2>4, <3>1
  <2>5. CASE Head(requests) = "StopAdv" /\ events' = Append(events, "AdvStopped")
    <3>1. ~FinalAdvertising'
      BY <2>1, <2>5, ReportedSwitches DEF FinalAdvertising, Event
    <3>. QED
      BY <1>1, <1>4, <2>5, <3>1
  <2>. QED
    BY <2>1, <2>2, <2>3, <2>4, <2>5 DEF RequestEffect, Neutral
<1>. QED
  BY <1>1, <1>3, <1>4

\* Requests stay until they are carried out, events until they are delivered.
LEMMA NothingIsLost ==
  ASSUME TypeOK
  PROVE  /\ PresenceTask \/ Callback \/ Surroundings =>
              \A x : Among(requests, x) => Among(requests', x)
         /\ CarryOut =>
              \A x : Among(requests, x) => Head(requests) = x \/ Among(requests', x)
         /\ (PresenceTask \/ CarryOut \/ Surroundings) /\ Among(events, "Disconnected") => Among(events', "Disconnected")
         /\ Callback /\ Among(events, "Disconnected") =>
              Head(events) = "Disconnected" \/ Among(events', "Disconnected")
<1>1. /\ requests \in Seq(Request) /\ events \in Seq(Event)
      /\ {"StartAdv", "StopAdv", "Discoverable", "Hidden"} \subseteq Request
      /\ {"RemoteNameRead", "Disconnected"} \subseteq Event
  BY DEF TypeOK, Request, Event
<1>2. ASSUME PostsNeutral \/ \E e \in Request : requests' = Append(requests, e)
      PROVE  \A x : Among(requests, x) => Among(requests', x)
  <2>1. CASE PostsNeutral
    <3>1. FALSE \in BOOLEAN
      OBVIOUS
    <3>. QED
      BY <2>1, <3>1, NeutralPosts
  <2>2. ASSUME NEW e \in Request, requests' = Append(requests, e), NEW x, Among(requests, x)
        PROVE  Among(requests', x)
    BY <1>1, <2>2, AmongQueues
  <2>. QED
    BY <1>2, <2>1, <2>2
<1>3. ASSUME PresenceTask \/ Callback \/ Surroundings
      PROVE  \A x : Among(requests, x) => Among(requests', x)
  <2>1. CASE PresenceTask
    BY <1>1, <1>2, <2>1, PresenceTaskEffect DEF PresenceEffect
  <2>2. CASE Callback
    BY <1>1, <1>2, <2>2, CallbackEffect DEF CallbackPosts
  <2>3. CASE Surroundings
    BY <2>3, SurroundingsEffect
  <2>. QED
    BY <1>3, <2>1, <2>2, <2>3
<1>4. ASSUME CarryOut
      PROVE  \A x : Among(requests, x) => Head(requests) = x \/ Among(requests', x)
  <2>1. requests # << >> /\ requests' = Tail(requests) /\ Head(requests) \in Request
    BY <1>4, CarryOutEffect
  <2>. QED
    BY <1>1, <2>1, AmongQueues
<1>5. ASSUME PresenceTask \/ CarryOut \/ Surroundings, Among(events, "Disconnected")
      PROVE  Among(events', "Disconnected")
  <2>1. events' = events \/ \E e \in Event : events' = Append(events, e)
    <3>1. CASE PresenceTask
      BY <3>1, PresenceTaskEffect
    <3>2. CASE CarryOut
      BY <3>2, CarryOutEffect
    <3>3. CASE Surroundings
      BY <1>1, <3>3, SurroundingsEffect
    <3>. QED
      BY <1>5, <3>1, <3>2, <3>3
  <2>2. ASSUME NEW e \in Event, events' = Append(events, e)
        PROVE  Among(events', "Disconnected")
    BY <1>1, <1>5, <2>2, AmongQueues
  <2>. QED
    BY <1>5, <2>1, <2>2
<1>6. ASSUME Callback, Among(events, "Disconnected")
      PROVE  Head(events) = "Disconnected" \/ Among(events', "Disconnected")
  <2>1. events # << >> /\ events' = Tail(events)
    BY <1>6, CallbackEffect DEF CallbackFlags
  <2>. QED
    BY <1>1, <1>6, <2>1, AmongQueues
<1>. QED
  BY <1>3, <1>4, <1>5, <1>6

-------------------------------------------------------------------------------
\* AdvInv cut into its three conjuncts.
AdvShown  == radio.adv => FinalAdvertising
AdvOpen   == pairing_mode /\ FinalAdvertising =>
               \/ radio.adv \/ radio.connected
               \/ Among(requests, "StartAdv") \/ Among(requests, "StopAdv")
               \/ Among(events, "Disconnected")
AdvClosed == ~pairing_mode /\ pc \notin {"hide", "stopAdv"} => ~FinalAdvRequest

LEMMA AdvShownStep ==
  ASSUME TypeOK, TypeOK', AdvShown, [Next]_vars
  PROVE  AdvShown'
<1>. USE DEF AdvShown
<1>1. CASE CarryOut
  <2>1. RequestEffect(Head(requests))
    BY <1>1, CarryOutEffect
  <2>2. CASE Head(requests) = "StopAdv"
    <3>1. ~radio'.adv
      BY <2>1, <2>2 DEF RequestEffect, Neutral
    <3>. QED
      BY <3>1
  <2>3. CASE Head(requests) = "StartAdv" /\ ~radio.adv
    BY <1>1, <2>3, AdvertisingSwitches
  <2>4. CASE Head(requests) # "StopAdv" /\ ~(Head(requests) = "StartAdv" /\ ~radio.adv)
    <3>1. radio'.adv = radio.adv
      BY <2>1, <2>4 DEF RequestEffect, Keeps
    <3>. QED
      BY <1>1, <2>4, <3>1, AdvertisingSwitches
  <2>. QED
    BY <2>2, <2>3, <2>4
<1>2. CASE PresenceTask \/ Callback \/ Surroundings
  <2>1. radio'.adv => radio.adv
    BY <1>2, PresenceTaskEffect, CallbackEffect, SurroundingsEffect DEF Keeps
  <2>. QED
    BY <1>2, <2>1, AdvertisingSwitches
<1>3. CASE UNCHANGED vars
  BY <1>3 DEF vars, flags, stackVars, FinalAdvertising
<1>. QED
  BY <1>1, <1>2, <1>3 DEF Next, Bluedroid, Surroundings

\* What the posted requests come to changes only where something is posted.
LEMMA AdvRequestCarriedOut ==
  ASSUME TypeOK, TypeOK', AdvShown, CarryOut
  PROVE  FinalAdvRequest' <=> FinalAdvRequest
<1>1. /\ requests \in Seq(Request) /\ requests # << >> /\ requests' = Tail(requests)
  BY CarryOutEffect DEF TypeOK
<1>2. FinalAdvertising \in BOOLEAN /\ FinalAdvertising' \in BOOLEAN
  BY DEF FinalAdvertising, Final
<1>3. /\ Head(requests) = "StartAdv" => FinalAdvertising'
      /\ Head(requests) = "StopAdv" => ~FinalAdvertising'
      /\ Head(requests) \notin {"StartAdv", "StopAdv"} => (FinalAdvertising' <=> FinalAdvertising)
  BY AdvertisingSwitches DEF AdvShown
<1>4. Final(Tail(requests), "StartAdv", "StopAdv", FinalAdvertising')
        <=> Final(requests, "StartAdv", "StopAdv", FinalAdvertising)
  <2>. HIDE DEF FinalAdvertising
  <2>1. ASSUME NEW b \in BOOLEAN, NEW c \in BOOLEAN,
               Head(requests) = "StartAdv" => c, Head(requests) = "StopAdv" => ~c,
               Head(requests) \notin {"StartAdv", "StopAdv"} => (c <=> b)
        PROVE  Final(Tail(requests), "StartAdv", "StopAdv", c)
                 <=> Final(requests, "StartAdv", "StopAdv", b)
    BY <1>1, <2>1, TailFinal
  <2>. QED
    BY <1>2, <1>3, <2>1
<1>. QED
  BY <1>1, <1>4 DEF FinalAdvRequest

LEMMA AdvRequestPosted ==
  ASSUME TypeOK, FinalAdvertising' <=> FinalAdvertising
  PROVE  /\ PostsNeutral => (FinalAdvRequest' <=> FinalAdvRequest)
         /\ \A e \in Request : requests' = Append(requests, e) =>
              /\ e = "StopAdv" => ~FinalAdvRequest'
              /\ e \notin {"StartAdv", "StopAdv"} => (FinalAdvRequest' <=> FinalAdvRequest)
<1>1. FinalAdvertising \in BOOLEAN /\ FinalAdvertising' = FinalAdvertising
  BY DEF FinalAdvertising, Final
<1>2. FinalAdvRequest' <=> Final(requests', "StartAdv", "StopAdv", FinalAdvertising)
  BY <1>1 DEF FinalAdvRequest
<1>3. PostsNeutral => (FinalAdvRequest' <=> FinalAdvRequest)
  BY <1>1, <1>2, NeutralPosts DEF FinalAdvRequest
<1>4. ASSUME NEW e \in Request, requests' = Append(requests, e)
      PROVE  /\ e = "StopAdv" => ~FinalAdvRequest'
             /\ e \notin {"StartAdv", "StopAdv"} => (FinalAdvRequest' <=> FinalAdvRequest)
  BY <1>1, <1>2, <1>4, RequestedSwitches DEF FinalAdvRequest
<1>. QED
  BY <1>3, <1>4

LEMMA AdvClosedStep ==
  ASSUME TypeOK, TypeOK', WindowInv, AdvShown, AdvClosed, [Next]_vars
  PROVE  AdvClosed'
<1>. USE DEF AdvClosed
<1>1. {"StartAdv", "StopAdv", "Discoverable", "Hidden"} \subseteq Request
  BY DEF Request
<1>2. CASE CarryOut
  BY <1>2, AdvRequestCarriedOut, CarryOutEffect
<1>3. CASE PresenceTask
  <2>1. PresenceEffect /\ (FinalAdvertising' <=> FinalAdvertising)
    BY <1>3, PresenceTaskEffect DEF FinalAdvertising
  <2>2. CASE PostsNeutral /\ UNCHANGED pairing_mode /\ StaysInside
    <3>1. pc' \notin {"hide", "stopAdv"} => pc \notin {"hide", "stopAdv"}
      BY <2>2 DEF StaysInside, OpenStep, CloseStep
    <3>. QED
      BY <2>1, <2>2, <3>1, AdvRequestPosted
  <2>3. CASE pairing_mode' \/ pc' \in {"hide", "stopAdv"}
    BY <2>3
  <2>4. CASE requests' = Append(requests, "StopAdv")
    BY <1>1, <2>1, <2>4, AdvRequestPosted
  <2>5. pc = "discover" => pairing_mode
    BY DEF WindowInv, OpenStep
  <2>. QED
    BY <2>1, <2>2, <2>3, <2>4, <2>5 DEF PresenceEffect
<1>4. CASE Callback
  <2>1. /\ UNCHANGED <<pc, pairing_mode>> /\ CallbackPosts
        /\ FinalAdvertising' <=> FinalAdvertising
    BY <1>4, CallbackEffect, CallbackSwitches
  <2>. QED
    BY <1>1, <2>1, AdvRequestPosted DEF CallbackPosts
<1>5. CASE Surroundings
  <2>1. UNCHANGED <<pc, pairing_mode, requests>>
    BY <1>5, SurroundingsEffect DEF flags
  <2>2. FinalAdvertising' <=> FinalAdvertising
    BY <1>5, AdvertisingSwitches
  <2>3. FinalAdvRequest' <=> FinalAdvRequest
    BY <2>1, <2>2, AdvRequestPosted DEF PostsNeutral
  <2>. QED
    BY <2>1, <2>3
<1>6. CASE UNCHANGED vars
  BY <1>6 DEF vars, flags, stackVars, FinalAdvRequest, FinalAdvertising
<1>. QED
  BY <1>2, <1>3, <1>4, <1>5, <1>6 DEF Next, Bluedroid, Surroundings

LEMMA AdvOpenStep ==
  ASSUME TypeOK, TypeOK', AdvOpen, AdvClosed, [Next]_vars
  PROVE  AdvOpen'
<1>. USE DEF AdvOpen
<1>1. CASE PresenceTask
  <2>1. PresenceEffect /\ UNCHANGED <<events, radio>> /\ (FinalAdvertising' => FinalAdvertising)
    BY <1>1, PresenceTaskEffect DEF FinalAdvertising
  <2>2. CASE pairing_mode
    <3>1. \A x : Among(requests, x) => Among(requests', x)
      BY <1>1, NothingIsLost
    <3>. QED
      BY <2>1, <2>2, <3>1
  <2>3. CASE ~pairing_mode /\ pairing_mode'
    <3>1. requests' = requests /\ pc = "command"
      BY <2>1, <2>3 DEF PresenceEffect
    <3>2. FinalAdvertising => Among(requests, "StopAdv")
      BY <2>3, <3>1 DEF AdvClosed, FinalAdvRequest, Final, Among
    <3>. QED
      BY <2>1, <3>1, <3>2 DEF Among
  <2>. QED
    BY <2>2, <2>3
<1>2. CASE Callback
  <2>1. /\ UNCHANGED <<pc, pairing_mode, radio>> /\ CallbackFlags
        /\ FinalAdvertising' <=> FinalAdvertising
    BY <1>2, CallbackEffect, CallbackSwitches
  <2>2. \A x : Among(requests, x) => Among(requests', x)
    BY <1>2, NothingIsLost
  <2>3. pairing_mode /\ Head(events) = "Disconnected" => Among(requests', "StartAdv")
    <3>1. "StartAdv" \in Request /\ requests \in Seq(Request)
      BY DEF Request, TypeOK
    <3>2. Among(Append(requests, "StartAdv"), "StartAdv")
      BY <3>1, AmongQueues
    <3>3. pairing_mode /\ Head(events) = "Disconnected" => requests' = Append(requests, "StartAdv")
      BY <2>1 DEF CallbackFlags
    <3>. QED
      BY <3>2, <3>3 DEF Among
  <2>4. Among(events, "Disconnected") => Head(events) = "Disconnected" \/ Among(events', "Disconnected")
    BY <1>2, NothingIsLost
  <2>. QED
    BY <2>1, <2>2, <2>3, <2>4
<1>3. CASE CarryOut
  <2>1. UNCHANGED pairing_mode /\ Keeps("connected") /\ RequestEffect(Head(requests))
    BY <1>3, CarryOutEffect
  <2>2. \A x : Among(requests, x) => Head(requests) = x \/ Among(requests', x)
    BY <1>3, NothingIsLost
  <2>3. Among(events, "Disconnected") => Among(events', "Disconnected")
    BY <1>3, NothingIsLost
  <2>4. CASE Head(requests) = "StopAdv"
    BY <1>3, <2>4, AdvertisingSwitches
  <2>5. CASE Head(requests) = "StartAdv"
    <3>1. radio'.adv
      BY <2>1, <2>5 DEF RequestEffect, Keeps, Neutral
    <3>. QED
      BY <3>1
  <2>6. CASE Head(requests) \notin {"StartAdv", "StopAdv"}
    <3>1. radio'.adv = radio.adv
      BY <2>1, <2>6 DEF RequestEffect, Keeps
    <3>2. FinalAdvertising' <=> FinalAdvertising
      BY <1>3, <2>6, AdvertisingSwitches
    <3>. QED
      BY <2>1, <2>2, <2>3, <2>6, <3>1, <3>2 DEF Keeps
  <2>. QED
    BY <2>4, <2>5, <2>6
<1>4. CASE Surroundings
  <2>1. /\ UNCHANGED <<pairing_mode, requests>>
        /\ \/ radio'.adv = radio.adv /\ radio'.connected = radio.connected
           \/ radio'.connected
           \/ events' = Append(events, "Disconnected")
    BY <1>4, SurroundingsEffect DEF flags, Keeps
  <2>2. FinalAdvertising' <=> FinalAdvertising
    BY <1>4, AdvertisingSwitches
  <2>3. Among(events, "Disconnected") => Among(events', "Disconnected")
    BY <1>4, NothingIsLost
  <2>4. Among(Append(events, "Disconnected"), "Disconnected")
    <3>1. events \in Seq(Event) /\ "Disconnected" \in Event
      BY DEF TypeOK, Event
    <3>. QED
      BY <3>1, AmongQueues
  <2>. QED
    BY <2>1, <2>2, <2>3, <2>4 DEF Among
<1>5. CASE UNCHANGED vars
  BY <1>5 DEF vars, flags, stackVars, FinalAdvertising, Among
<1>. QED
  BY <1>1, <1>2, <1>3, <1>4, <1>5 DEF Next, Bluedroid, Surroundings

LEMMA RadioStep ==
  ASSUME TypeOK, RadioInv, [Next]_vars
  PROVE  TypeOK' /\ RadioInv'
<1>1. TypeOK'
  BY TypeKept
<1>2. AdvShown /\ AdvOpen /\ AdvClosed
  BY DEF RadioInv, AdvInv, AdvShown, AdvOpen, AdvClosed
<1>3. AdvShown' /\ AdvOpen' /\ AdvClosed'
  BY <1>1, <1>2, AdvShownStep, AdvOpenStep, AdvClosedStep DEF RadioInv
<1>4. WindowInv' /\ ScanInv' /\ DiscoverInv'
  BY <1>1, WindowStep, ScanStep, DiscoverStep DEF RadioInv
<1>. QED
  BY <1>1, <1>3, <1>4 DEF RadioInv, AdvInv, AdvShown, AdvOpen, AdvClosed

LEMMA RadioInit == Init => RadioInv
<1>. SUFFICES ASSUME Init PROVE RadioInv
  OBVIOUS
<1>1. /\ DOMAIN events = {1} /\ events[1] = "SppStarted"
      /\ DOMAIN requests = {1} /\ requests[1] = "LocalPrivacy"
  BY DEF Init
<1>2. /\ ~scanning /\ ~advertising /\ ~pairing_mode /\ pc = "command"
      /\ ~radio.scan /\ ~radio.adv /\ ~radio.discoverable
  BY DEF Init
<1>3. ~FinalScanning /\ ~FinalAdvertising
  BY <1>1, <1>2 DEF FinalScanning, FinalAdvertising, Final
<1>4. ~FinalDiscoverable /\ ~FinalAdvRequest
  BY <1>1, <1>2, <1>3 DEF FinalDiscoverable, FinalAdvRequest, Final
<1>. QED
  BY <1>2, <1>3, <1>4 DEF RadioInv, WindowInv, ScanInv, DiscoverInv, AdvInv, OpenStep, CloseStep

\* When nothing is outstanding the flags agree with the radio, whatever has been clicked,
\* connected and answered, and in whatever order its reports came in: s_ble_scanning and
\* s_ble_advertising, on which request_ble_scan_mode and open_pairing_window rely, are
\* never left wrong.
THEOREM FlagsAreTrue == Spec => []FlagsTellTheTruth
<1>1. Init => TypeOK /\ RadioInv
  BY InitType, RadioInit
<1>2. TypeOK /\ RadioInv /\ [Next]_vars => (TypeOK /\ RadioInv)'
  BY RadioStep
<1>3. TypeOK /\ RadioInv => FlagsTellTheTruth
  <2>. SUFFICES ASSUME TypeOK, RadioInv, requests = << >>, events = << >>, pc = "command"
                PROVE  /\ scanning = radio.scan
                       /\ radio.adv => advertising
                       /\ advertising => radio.adv \/ radio.connected
                       /\ radio.discoverable = pairing_mode
    BY DEF FlagsTellTheTruth
  <2>1. DOMAIN requests = {} /\ DOMAIN events = {}
    OBVIOUS
  <2>2. /\ FinalScanning <=> scanning
        /\ FinalAdvertising <=> advertising
        /\ FinalDiscoverable <=> radio.discoverable
        /\ ~Among(events, "Disconnected")
        /\ \A x : ~Among(requests, x)
    BY <2>1 DEF FinalScanning, FinalAdvertising, FinalDiscoverable, Final, Among
  <2>3. FinalAdvRequest <=> advertising
    BY <2>1, <2>2 DEF FinalAdvRequest, Final
  <2>4. /\ scanning \in BOOLEAN /\ radio.scan \in BOOLEAN /\ radio.discoverable \in BOOLEAN
        /\ pairing_mode \in BOOLEAN
    BY DEF TypeOK, Radio
  <2>5. scanning = radio.scan
    BY <2>2, <2>4 DEF RadioInv, ScanInv
  <2>6. radio.discoverable = pairing_mode
    BY <2>2, <2>4 DEF RadioInv, DiscoverInv, OpenStep
  <2>7. (radio.adv => advertising) /\ (advertising => radio.adv \/ radio.connected)
    BY <2>2, <2>3 DEF RadioInv, AdvInv
  <2>. QED
    BY <2>5, <2>6, <2>7
<1>. QED
  BY <1>1, <1>2, <1>3, PTL DEF Spec
===============================================================================
