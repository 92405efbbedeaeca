-------------------------- MODULE CurlHandleProofs --------------------------
(***************************************************************************)
(* What holds of an easy handle for any number of calls, bodies of any     *)
(* size and any TLS configuration, wherever earlier calls stopped.         *)
(***************************************************************************)
EXTENDS CurlHandle, SequenceTheorems, TLAPS

-----------------------------------------------------------------------------
(* Scripts: what the first n steps of one leave in option o, which was d.  *)
Leaves(script, n, o, d, v) ==
  \/ \E j \in 1 .. n : /\ script[j] = Set(o, v)
                       /\ \A l \in j + 1 .. n : script[l][1] # o
  \/ v = d /\ \A l \in 1 .. n : script[l][1] # o

(* One more step of the script overwrites its own option and no other.     *)
LEMMA LeavesStep ==
  ASSUME NEW script, NEW n \in Nat, NEW o, NEW d, NEW v, Leaves(script, n, o, d, v)
  PROVE  /\ script[n + 1][1] # o => Leaves(script, n + 1, o, d, v)
         /\ \A w : script[n + 1] = Set(o, w) => Leaves(script, n + 1, o, d, w)
<1>1. \A l \in 1 .. n + 1 : l \in 1 .. n \/ l = n + 1
  OBVIOUS
<1>2. n + 1 \in 1 .. n + 1 /\ n + 1 + 1 .. n + 1 = {}
  OBVIOUS
<1>3. ASSUME NEW w, script[n + 1] = Set(o, w)
      PROVE  Leaves(script, n + 1, o, d, w)
  BY <1>2, <1>3 DEF Leaves
<1>4. ASSUME script[n + 1][1] # o
      PROVE  Leaves(script, n + 1, o, d, v)
  <2>1. CASE v = d /\ \A l \in 1 .. n : script[l][1] # o
    BY <1>1, <1>4, <2>1 DEF Leaves
  <2>2. ASSUME NEW j \in 1 .. n, script[j] = Set(o, v),
               \A l \in j + 1 .. n : script[l][1] # o
        PROVE  Leaves(script, n + 1, o, d, v)
    <3>1. j \in 1 .. n + 1 /\ \A l \in j + 1 .. n + 1 : l \in j + 1 .. n \/ l = n + 1
      OBVIOUS
    <3> QED
      BY <1>4, <2>2, <3>1 DEF Leaves
  <2> QED
    BY <2>1, <2>2 DEF Leaves
<1> QED
  BY <1>3, <1>4

(* What a script leaves is one value.                                      *)
LEMMA LeavesOne ==
  ASSUME NEW script, NEW n \in Nat, NEW o, NEW d, NEW v, NEW w,
         Leaves(script, n, o, d, v), Leaves(script, n, o, d, w)
  PROVE  v = w
<1>1. \A x : Set(o, x)[1] = o /\ Set(o, x)[2] = x
  BY DEF Set
<1>2. ASSUME NEW j \in 1 .. n, script[j] = Set(o, v), \A l \in j + 1 .. n : script[l][1] # o,
             NEW i \in 1 .. n, script[i] = Set(o, w), \A l \in i + 1 .. n : script[l][1] # o
      PROVE  v = w
  <2>1. i = j
    <3>1. i \in Int /\ j \in Int /\ ~ (i \in j + 1 .. n) /\ ~ (j \in i + 1 .. n)
      BY <1>1, <1>2
    <3> QED
      BY <3>1
  <2> QED
    BY <1>1, <1>2, <2>1
<1> QED
  BY <1>1, <1>2 DEF Leaves

(* One script after another.                                               *)
LEMMA LeavesConcat ==
  ASSUME NEW S, NEW a \in Seq(S), NEW b \in Seq(S), NEW o, NEW d, NEW v, NEW w,
         Leaves(a, Len(a), o, d, v), Leaves(b, Len(b), o, v, w)
  PROVE  Leaves(a \o b, Len(a \o b), o, d, w)
<1> DEFINE A == Len(a)
           B == Len(b)
           c == a \o b
<1>1. /\ A \in Nat /\ B \in Nat /\ Len(c) = A + B
      /\ \A i \in 1 .. A : i \in 1 .. A + B /\ c[i] = a[i]
      /\ \A i \in 1 .. B : A + i \in 1 .. A + B /\ c[A + i] = b[i]
  OBVIOUS
<1> HIDE DEF A, B, c
<1>2. \A l \in 1 .. A + B : l \in 1 .. A \/ (\E i \in 1 .. B : l = A + i)
  <2>1. \A l \in 1 .. A + B : l \in 1 .. A \/ (l - A \in 1 .. B /\ l = A + (l - A))
    BY <1>1
  <2> QED
    BY <2>1
<1>3. ASSUME NEW j \in 1 .. B, b[j] = Set(o, w), \A l \in j + 1 .. B : b[l][1] # o
      PROVE  Leaves(c, A + B, o, d, w)
  <2>1. A + j \in 1 .. A + B /\ c[A + j] = Set(o, w)
    BY <1>1, <1>3
  <2>2. ASSUME NEW l \in A + j + 1 .. A + B
        PROVE  c[l][1] # o
    <3>1. l - A \in j + 1 .. B /\ l - A \in 1 .. B /\ l = A + (l - A)
      BY <1>1
    <3>2. c[A + (l - A)] = b[l - A]
      BY <1>1, <3>1
    <3>3. c[l] = b[l - A]
      BY <3>1, <3>2
    <3> QED
      BY <1>3, <3>1, <3>3
  <2> QED
    BY <2>1, <2>2 DEF Leaves
<1>4. ASSUME w = v, \A l \in 1 .. B : b[l][1] # o
      PROVE  Leaves(c, A + B, o, d, w)
  <2>1. ASSUME NEW j \in 1 .. A, a[j] = Set(o, v), \A l \in j + 1 .. A : a[l][1] # o
        PROVE  Leaves(c, A + B, o, d, w)
    <3>1. j \in 1 .. A + B /\ c[j] = Set(o, w)
      BY <1>1, <1>4, <2>1
    <3>2. ASSUME NEW l \in j + 1 .. A + B
          PROVE  c[l][1] # o
      <4>1. l \in 1 .. A + B /\ (l \in 1 .. A => l \in j + 1 .. A)
        BY <1>1
      <4>2. CASE l \in 1 .. A
        <5>1. c[l] = a[l] /\ a[l][1] # o
          BY <1>1, <2>1, <4>1, <4>2
        <5> QED
          BY <5>1
      <4>3. ASSUME NEW i \in 1 .. B, l = A + i
            PROVE  c[l][1] # o
        <5>1. c[l] = b[i] /\ b[i][1] # o
          BY <1>1, <1>4, <4>3
        <5> QED
          BY <5>1
      <4> QED
        BY <1>2, <4>1, <4>2, <4>3
    <3> QED
      BY <3>1, <3>2 DEF Leaves
  <2>2. CASE v = d /\ \A l \in 1 .. A : a[l][1] # o
    <3>1. ASSUME NEW l \in 1 .. A + B
          PROVE  c[l][1] # o
      <4>1. CASE l \in 1 .. A
        <5>1. c[l] = a[l] /\ a[l][1] # o
          BY <1>1, <2>2, <4>1
        <5> QED
          BY <5>1
      <4>2. ASSUME NEW i \in 1 .. B, l = A + i
            PROVE  c[l][1] # o
        <5>1. c[l] = b[i] /\ b[i][1] # o
          BY <1>1, <1>4, <4>2
        <5> QED
          BY <5>1
      <4> QED
        BY <1>2, <4>1, <4>2
    <3> QED
      BY <1>4, <2>2, <3>1 DEF Leaves
  <2> QED
    BY <2>1, <2>2 DEF Leaves, A
<1> QED
  BY <1>1, <1>3, <1>4 DEF Leaves, B, c

(* A step that is taken, and one that is not.                              *)
LEMMA LeavesSingle ==
  ASSUME NEW o, NEW x, NEW p, NEW d, NEW S, Set(o, x) \in S
  PROVE  /\ <<Set(o, x)>> \in Seq(S)
         /\ Leaves(<<Set(o, x)>>, Len(<<Set(o, x)>>), p, d, IF o = p THEN x ELSE d)
<1> DEFINE step == <<Set(o, x)>>
<1>1. step \in Seq(S) /\ Len(step) = 1 /\ step[1] = Set(o, x) /\ Set(o, x)[1] = o
  BY DEF Set
<1>2. 1 .. 1 = {1} /\ 1 + 1 .. 1 = {}
  OBVIOUS
<1>3. Leaves(step, 1, p, d, IF o = p THEN x ELSE d)
  BY <1>1, <1>2 DEF Leaves
<1> QED
  BY <1>1, <1>3

(* A script without steps leaves what there was.                           *)
LEMMA LeavesNone ==
  ASSUME NEW p, NEW d, NEW S
  PROVE  <<>> \in Seq(S) /\ Leaves(<<>>, Len(<<>>), p, d, d)
<1>1. <<>> \in Seq(S) /\ Len(<<>>) = 0 /\ 1 .. 0 = {}
  OBVIOUS
<1>2. Leaves(<<>>, 0, p, d, d)
  BY <1>1 DEF Leaves
<1> QED
  BY <1>1, <1>2

-----------------------------------------------------------------------------
(* The options that the constructor sets and setupTls() does not.          *)
Basics == {"ERRORBUFFER", "NOPROGRESS", "XFERINFOFUNCTION", "XFERINFODATA",
           "WRITEFUNCTION", "READFUNCTION", "NOSIGNAL", "TIMEOUT_MS",
           "CONNECTTIMEOUT_MS", "HTTP_VERSION"}

(* The steps of the constructor for cfg.                                   *)
Steps(cfg) ==
  {Set("ERRORBUFFER", "m_errBuffer"), Set("NOPROGRESS", TRUE), Set("NOPROGRESS", FALSE),
   Set("XFERINFOFUNCTION", "progressCallback"), Set("XFERINFODATA", "this"),
   Set("WRITEFUNCTION", "append"), Set("READFUNCTION", "readCallback"),
   Set("NOSIGNAL", TRUE), Set("TIMEOUT_MS", "requestTimeout"),
   Set("CONNECTTIMEOUT_MS", "connectTimeout"), Set("HTTP_VERSION", "1.1"),
   Set("SSLCERT", "cert"), Set("CAPATH", "certType"), Set("SSLKEY", "key"),
   Set("CAPATH", IF "certType" \in cfg THEN "certType" ELSE "empty"),
   Set("CAPATH", "caPath"), Set("CAINFO", "caInfo"), Set("KEYPASSWD", "keyPass"),
   Set("SSL_VERIFYPEER", "verifyPeer" \in cfg),
   Set("SSL_VERIFYHOST", "verifyHost" \in cfg),
   Set("SSL_VERIFYSTATUS", TRUE)}

(* Two steps that are always taken.                                        *)
LEMMA LeavesTwo ==
  ASSUME NEW o1, NEW x1, NEW o2, NEW x2, NEW p, NEW d, NEW S,
         Set(o1, x1) \in S, Set(o2, x2) \in S
  PROVE  LET two == <<Set(o1, x1), Set(o2, x2)>>
         IN  /\ two \in Seq(S)
             /\ Leaves(two, Len(two), p, d, IF o2 = p THEN x2 ELSE IF o1 = p THEN x1 ELSE d)
<1> DEFINE two == <<Set(o1, x1), Set(o2, x2)>>
<1>1. /\ two \in Seq(S) /\ Len(two) = 2
      /\ two[1] = Set(o1, x1) /\ two[2] = Set(o2, x2)
      /\ two[1][1] = o1 /\ two[2][1] = o2
  BY DEF Set
<1>2. 1 .. 2 = {1, 2} /\ 1 + 1 .. 2 = {2} /\ 2 + 1 .. 2 = {}
  OBVIOUS
<1> HIDE DEF two
<1>3. Leaves(two, 2, p, d, IF o2 = p THEN x2 ELSE IF o1 = p THEN x1 ELSE d)
  BY <1>1, <1>2 DEF Leaves
<1> QED
  BY <1>1, <1>3 DEF two

(* Steps that set other options leave what there was.                      *)
LEMMA LeavesOthers ==
  ASSUME NEW S, NEW a \in Seq(S), NEW p, NEW d, \A l \in 1 .. Len(a) : a[l][1] # p
  PROVE  Leaves(a, Len(a), p, d, d)
BY DEF Leaves

(* Steps of the constructor that are not of TLS.                           *)
Basic(a, cfg) == a \in Seq(Steps(cfg)) /\ \A l \in 1 .. Len(a) : a[l][1] \in Basics
(* Three such steps, or six, in a row. *)
LEMMA ThreeBasics ==
  ASSUME NEW cfg, NEW a \in Steps(cfg), NEW b \in Steps(cfg), NEW c \in Steps(cfg),
         a[1] \in Basics, b[1] \in Basics, c[1] \in Basics
  PROVE  Basic(<<a, b, c>>, cfg)
BY 1 .. 3 = {1, 2, 3} DEF Basic
(* The same of six. *)
LEMMA SixBasics ==
  ASSUME NEW cfg, NEW a \in Steps(cfg), NEW b \in Steps(cfg), NEW c \in Steps(cfg),
         NEW d \in Steps(cfg), NEW e \in Steps(cfg), NEW f \in Steps(cfg),
         a[1] \in Basics, b[1] \in Basics, c[1] \in Basics,
         d[1] \in Basics, e[1] \in Basics, f[1] \in Basics
  PROVE  Basic(<<a, b, c, d, e, f>>, cfg)
BY 1 .. 6 = {1, 2, 3, 4, 5, 6} DEF Basic

(* The three parts of the constructor that have only such. *)
LEMMA BasicSteps ==
  ASSUME NEW cfg
  PROVE  /\ Basic(<<Set("ERRORBUFFER", "m_errBuffer")>>, cfg)
         /\ Basic(Progress(cfg), cfg)
         /\ Basic(<<Set("WRITEFUNCTION", "append"), Set("READFUNCTION", "readCallback"),
                    Set("NOSIGNAL", TRUE), Set("TIMEOUT_MS", "requestTimeout"),
                    Set("CONNECTTIMEOUT_MS", "connectTimeout"), Set("HTTP_VERSION", "1.1")>>, cfg)
<1>1. \A o, x : Set(o, x)[1] = o
  BY DEF Set
<1>2. \A x : x \in Steps(cfg) /\ x[1] \in Basics => Basic(<<x>>, cfg)
  BY DEF Basic
<1>3. ASSUME NEW a, NEW b, Basic(a, cfg), Basic(b, cfg)
      PROVE  Basic(a \o b, cfg)
  BY <1>3 DEF Basic
<1>4. /\ Set("ERRORBUFFER", "m_errBuffer") \in Steps(cfg)
      /\ Set("NOPROGRESS", FALSE) \in Steps(cfg) /\ Set("NOPROGRESS", TRUE) \in Steps(cfg)
      /\ Set("XFERINFOFUNCTION", "progressCallback") \in Steps(cfg)
      /\ Set("XFERINFODATA", "this") \in Steps(cfg)
      /\ Set("WRITEFUNCTION", "append") \in Steps(cfg)
      /\ Set("READFUNCTION", "readCallback") \in Steps(cfg)
      /\ Set("NOSIGNAL", TRUE) \in Steps(cfg) /\ Set("TIMEOUT_MS", "requestTimeout") \in Steps(cfg)
      /\ Set("CONNECTTIMEOUT_MS", "connectTimeout") \in Steps(cfg)
      /\ Set("HTTP_VERSION", "1.1") \in Steps(cfg)
  BY Zenon DEF Steps
<1>5. Basic(<<Set("ERRORBUFFER", "m_errBuffer")>>, cfg)
  BY <1>1, <1>2, <1>4 DEF Basics
<1>6. Basic(Progress(cfg), cfg)
  <2>1. Basic(<<Set("NOPROGRESS", TRUE)>>, cfg)
    <3>1. Set("NOPROGRESS", TRUE)[1] \in Basics
      BY <1>1, Zenon DEF Basics
    <3> QED
      BY <3>1, <1>2, <1>4, Zenon
  <2>2. /\ Set("NOPROGRESS", FALSE)[1] \in Basics
        /\ Set("XFERINFOFUNCTION", "progressCallback")[1] \in Basics
        /\ Set("XFERINFODATA", "this")[1] \in Basics
    BY <1>1, Zenon DEF Basics
  <2>3. Basic(<<Set("NOPROGRESS", FALSE), Set("XFERINFOFUNCTION", "progressCallback"),
                Set("XFERINFODATA", "this")>>, cfg)
    BY <2>2, <1>4, ThreeBasics, Zenon
  <2> QED
    BY <2>1, <2>3, Zenon DEF Progress
<1>7. Basic(<<Set("WRITEFUNCTION", "append"), Set("READFUNCTION", "readCallback"),
              Set("NOSIGNAL", TRUE), Set("TIMEOUT_MS", "requestTimeout"),
              Set("CONNECTTIMEOUT_MS", "connectTimeout"), Set("HTTP_VERSION", "1.1")>>, cfg)
  <2>1. /\ Set("WRITEFUNCTION", "append")[1] \in Basics
        /\ Set("READFUNCTION", "readCallback")[1] \in Basics
        /\ Set("NOSIGNAL", TRUE)[1] \in Basics
        /\ Set("TIMEOUT_MS", "requestTimeout")[1] \in Basics
        /\ Set("CONNECTTIMEOUT_MS", "connectTimeout")[1] \in Basics
        /\ Set("HTTP_VERSION", "1.1")[1] \in Basics
    BY <1>1, Zenon DEF Basics
  <2> QED
    BY <2>1, <1>4, SixBasics, Zenon
<1> QED
  BY <1>5, <1>6, <1>7

(***************************************************************************)
(* What the constructor leaves in option p: each step of setupTls()        *)
(* replaces what the ones before it left, where it sets p and its field is *)
(* given.                                                                  *)
(***************************************************************************)
LEMMA ConstructionLeaves ==
  ASSUME NEW cfg, NEW p, p \notin Basics, NEW d
  PROVE  LET script == Construction(cfg)
             d1 == IF "cert" \in cfg /\ "SSLCERT" = p THEN "cert" ELSE d
             d2 == IF "certType" \in cfg /\ "CAPATH" = p THEN "certType" ELSE d1
             d3 == IF "key" \in cfg /\ "SSLKEY" = p THEN "key" ELSE d2
             d4 == IF "keyType" \in cfg /\ "CAPATH" = p
                   THEN IF "certType" \in cfg THEN "certType" ELSE "empty" ELSE d3
             d5 == IF "caPath" \in cfg /\ "CAPATH" = p THEN "caPath" ELSE d4
             d6 == IF "caInfo" \in cfg /\ "CAINFO" = p THEN "caInfo" ELSE d5
             d7 == IF "keyPass" \in cfg /\ "KEYPASSWD" = p THEN "keyPass" ELSE d6
             d8 == IF "SSL_VERIFYHOST" = p THEN "verifyHost" \in cfg
                   ELSE IF "SSL_VERIFYPEER" = p THEN "verifyPeer" \in cfg ELSE d7
             d9 == IF "verifyStatus" \in cfg /\ "SSL_VERIFYSTATUS" = p THEN TRUE ELSE d8
         IN  script \in Seq(Steps(cfg)) /\ Leaves(script, Len(script), p, d, d9)
<1> DEFINE f1 == <<Set("ERRORBUFFER", "m_errBuffer")>>
           f2 == Progress(cfg)
           f3 == <<Set("WRITEFUNCTION", "append"), Set("READFUNCTION", "readCallback"),
                   Set("NOSIGNAL", TRUE), Set("TIMEOUT_MS", "requestTimeout"),
                   Set("CONNECTTIMEOUT_MS", "connectTimeout"), Set("HTTP_VERSION", "1.1")>>
           first == f1 \o f2 \o f3
           s1 == If("cert" \in cfg, Set("SSLCERT", "cert"))
           s2 == If("certType" \in cfg, Set("CAPATH", "certType"))
           s3 == If("key" \in cfg, Set("SSLKEY", "key"))
           s4 == If("keyType" \in cfg, Set("CAPATH", IF "certType" \in cfg THEN "certType" ELSE "empty"))
           s5 == If("caPath" \in cfg, Set("CAPATH", "caPath"))
           s6 == If("caInfo" \in cfg, Set("CAINFO", "caInfo"))
           s7 == If("keyPass" \in cfg, Set("KEYPASSWD", "keyPass"))
           s8 == <<Set("SSL_VERIFYPEER", "verifyPeer" \in cfg),
                   Set("SSL_VERIFYHOST", "verifyHost" \in cfg)>>
           s9 == If("verifyStatus" \in cfg, Set("SSL_VERIFYSTATUS", TRUE))
           d1 == IF "cert" \in cfg /\ "SSLCERT" = p THEN "cert" ELSE d
           d2 == IF "certType" \in cfg /\ "CAPATH" = p THEN "certType" ELSE d1
           d3 == IF "key" \in cfg /\ "SSLKEY" = p THEN "key" ELSE d2
           d4 == IF "keyType" \in cfg /\ "CAPATH" = p
                 THEN IF "certType" \in cfg THEN "certType" ELSE "empty" ELSE d3
           d5 == IF "caPath" \in cfg /\ "CAPATH" = p THEN "caPath" ELSE d4
           d6 == IF "caInfo" \in cfg /\ "CAINFO" = p THEN "caInfo" ELSE d5
           d7 == IF "keyPass" \in cfg /\ "KEYPASSWD" = p THEN "keyPass" ELSE d6
           d8 == IF "SSL_VERIFYHOST" = p THEN "verifyHost" \in cfg
                 ELSE IF "SSL_VERIFYPEER" = p THEN "verifyPeer" \in cfg ELSE d7
           d9 == IF "verifyStatus" \in cfg /\ "SSL_VERIFYSTATUS" = p THEN TRUE ELSE d8
           a1 == s1
           a2 == a1 \o s2
           a3 == a2 \o s3
           a4 == a3 \o s4
           a5 == a4 \o s5
           a6 == a5 \o s6
           a7 == a6 \o s7
           a8 == a7 \o s8
           a9 == a8 \o s9
           Good(script, from, to) ==
             script \in Seq(Steps(cfg)) /\ Leaves(script, Len(script), p, from, to)
<1>1. \A a, b, u, v, w : Good(a, u, v) /\ Good(b, v, w) => Good(a \o b, u, w)
  <2> SUFFICES ASSUME NEW a, NEW b, NEW u, NEW v, NEW w, Good(a, u, v), Good(b, v, w)
               PROVE  Good(a \o b, u, w)
    BY Zenon
  <2>1. a \o b \in Seq(Steps(cfg))
    BY ConcatProperties
  <2> QED
    BY <2>1, LeavesConcat
<1>i. ASSUME NEW o, NEW x, NEW u, Set(o, x) \in Steps(cfg)
      PROVE  Good(<<Set(o, x)>>, u, IF o = p THEN x ELSE u)
  BY <1>i, LeavesSingle
<1>e. \A u : Good(<<>>, u, u)
  BY LeavesNone
<1> HIDE DEF f1, f2, f3, first, s1, s2, s3, s4, s5, s6, s7, s8, s9, d1, d2, d3, d4, d5, d6, d7, d8, d9
<1>o. ASSUME NEW a, Basic(a, cfg)
      PROVE  Good(a, d, d)
  BY <1>o, LeavesOthers DEF Basic
<1> HIDE DEF Good
<1>f. Good(f1, d, d) /\ Good(f2, d, d) /\ Good(f3, d, d)
  BY <1>o, BasicSteps, Zenon DEF f1, f2, f3
<1>2. Good(first, d, d)
  <2>1. Good(f1 \o f2, d, d)
    BY <1>1, <1>f
  <2> QED
    BY <1>1, <1>f, <2>1 DEF first
<1>3. Good(s1, d, d1)
  <2>1. Set("SSLCERT", "cert") \in Steps(cfg)
    BY DEF Steps
  <2> QED
    BY <1>i, <1>e, <2>1 DEF If, s1, d1
<1>4. Good(s2, d1, d2)
  <2>1. Set("CAPATH", "certType") \in Steps(cfg)
    BY DEF Steps
  <2> QED
    BY <1>i, <1>e, <2>1 DEF If, s2, d2
<1>5. Good(s3, d2, d3)
  <2>1. Set("SSLKEY", "key") \in Steps(cfg)
    BY DEF Steps
  <2> QED
    BY <1>i, <1>e, <2>1 DEF If, s3, d3
<1>6. Good(s4, d3, d4)
  <2>1. Set("CAPATH", IF "certType" \in cfg THEN "certType" ELSE "empty") \in Steps(cfg)
    BY DEF Steps
  <2> QED
    BY <1>i, <1>e, <2>1 DEF If, s4, d4
<1>7. Good(s5, d4, d5)
  <2>1. Set("CAPATH", "caPath") \in Steps(cfg)
    BY DEF Steps
  <2> QED
    BY <1>i, <1>e, <2>1 DEF If, s5, d5
<1>8. Good(s6, d5, d6)
  <2>1. Set("CAINFO", "caInfo") \in Steps(cfg)
    BY DEF Steps
  <2> QED
    BY <1>i, <1>e, <2>1 DEF If, s6, d6
<1>9. Good(s7, d6, d7)
  <2>1. Set("KEYPASSWD", "keyPass") \in Steps(cfg)
    BY DEF Steps
  <2> QED
    BY <1>i, <1>e, <2>1 DEF If, s7, d7
<1>10. Good(s8, d7, d8)
  <2>1. /\ Set("SSL_VERIFYPEER", "verifyPeer" \in cfg) \in Steps(cfg)
        /\ Set("SSL_VERIFYHOST", "verifyHost" \in cfg) \in Steps(cfg)
    BY DEF Steps
  <2> QED
    BY <2>1, LeavesTwo DEF s8, d8, Good
<1>11. Good(s9, d8, d9)
  <2>1. Set("SSL_VERIFYSTATUS", TRUE) \in Steps(cfg)
    BY DEF Steps
  <2> QED
    BY <1>i, <1>e, <2>1 DEF If, s9, d9
<1>12. Good(a1, d, d1)
  BY <1>3
<1>13. Good(a2, d, d2)
  <2> HIDE DEF a1
  <2> QED
    BY <1>1, <1>4, <1>12
<1>14. Good(a3, d, d3)
  <2> HIDE DEF a2
  <2> QED
    BY <1>1, <1>5, <1>13
<1>15. Good(a4, d, d4)
  <2> HIDE DEF a3
  <2> QED
    BY <1>1, <1>6, <1>14
<1>16. Good(a5, d, d5)
  <2> HIDE DEF a4
  <2> QED
    BY <1>1, <1>7, <1>15
<1>17. Good(a6, d, d6)
  <2> HIDE DEF a5
  <2> QED
    BY <1>1, <1>8, <1>16
<1>18. Good(a7, d, d7)
  <2> HIDE DEF a6
  <2> QED
    BY <1>1, <1>9, <1>17
<1>19. Good(a8, d, d8)
  <2> HIDE DEF a7
  <2> QED
    BY <1>1, <1>10, <1>18
<1>20. Good(a9, d, d9)
  <2> HIDE DEF a8
  <2> QED
    BY <1>1, <1>11, <1>19
<1>21. Good(first \o a9, d, d9)
  <2> HIDE DEF a9
  <2> QED
    BY <1>1, <1>2, <1>20
<1>22. Construction(cfg) = first \o a9
  BY Zenon DEF Construction, SetupTls, f1, f2, f3, first, s1, s2, s3, s4, s5, s6, s7, s8, s9
<1> QED
  BY <1>21, <1>22 DEF Good, d1, d2, d3, d4, d5, d6, d7, d8, d9

-----------------------------------------------------------------------------
(* The options of a call, as one list.                                     *)
LEMMA ConcatSix ==
  ASSUME NEW a1, NEW a2, NEW a3, NEW a4, NEW a5, NEW a6, NEW a7, NEW a8
  PROVE  <<a1, a2, a3, a4, a5, a6>> \o <<a7, a8>>
           = <<a1, a2, a3, a4, a5, a6, a7, a8>>
<1> DEFINE S == {a1, a2, a3, a4, a5, a6, a7, a8}
           s == <<a1, a2, a3, a4, a5, a6>>
           u == <<a7, a8>>
           t == <<a1, a2, a3, a4, a5, a6, a7, a8>>
<1>1. /\ s \in Seq(S) /\ u \in Seq(S) /\ t \in Seq(S)
      /\ Len(s) = 6 /\ Len(u) = 2 /\ Len(t) = 8
  OBVIOUS
<1>2. /\ \A i \in 1 .. 6 : t[i] = s[i]
      /\ t[7] = u[1] /\ t[8] = u[2]
  OBVIOUS
<1> HIDE DEF S, s, u, t
<1> DEFINE v == s \o u
<1>3. /\ v \in Seq(S) /\ Len(v) = 8
      /\ \A i \in 1 .. 8 : v[i] = IF i <= 6 THEN s[i] ELSE u[i - 6]
  <2> DEFINE A == Len(s)
             B == Len(u)
  <2>1. /\ v \in Seq(S) /\ Len(v) = A + B
        /\ \A i \in 1 .. A + B : v[i] = IF i <= A THEN s[i] ELSE u[i - A]
    BY <1>1, ConcatProperties, Zenon
  <2> HIDE DEF v
  <2> QED
    BY <1>1, <2>1
<1> HIDE DEF v
<1>4. \A i \in 1 .. 8 : i \in 1 .. 6 \/ (i = 7 /\ i - 6 = 1) \/ (i = 8 /\ i - 6 = 2)
  OBVIOUS
<1>5. ASSUME NEW i \in 1 .. 8 PROVE v[i] = t[i]
  <2>1. CASE i \in 1 .. 6
    <3>1. i <= 6
      BY <2>1
    <3>2. v[i] = s[i]
      BY <1>3, <3>1, Zenon
    <3> QED
      BY <1>2, <2>1, <3>2, Zenon
  <2>2. CASE i = 7
    BY <1>2, <1>3, <2>2
  <2>3. CASE i = 8
    BY <1>2, <1>3, <2>3
  <2> QED
    BY <1>4, <2>1, <2>2, <2>3
<1>6. v = t
  BY <1>1, <1>3, <1>5, SeqEqual
<1> QED
  BY <1>6, Zenon DEF s, u, t, v

(* The same for the nine options of a PUT and the two of its headers.      *)
LEMMA ConcatNine ==
  ASSUME NEW a1, NEW a2, NEW a3, NEW a4, NEW a5, NEW a6, NEW a7, NEW a8, NEW a9, NEW a10, NEW a11
  PROVE  <<a1, a2, a3, a4, a5, a6, a7, a8, a9>> \o <<a10, a11>>
           = <<a1, a2, a3, a4, a5, a6, a7, a8, a9, a10, a11>>
<1> DEFINE S == {a1, a2, a3, a4, a5, a6, a7, a8, a9, a10, a11}
           s == <<a1, a2, a3, a4, a5, a6, a7, a8, a9>>
           u == <<a10, a11>>
           t == <<a1, a2, a3, a4, a5, a6, a7, a8, a9, a10, a11>>
<1>1. /\ s \in Seq(S) /\ u \in Seq(S) /\ t \in Seq(S)
      /\ Len(s) = 9 /\ Len(u) = 2 /\ Len(t) = 11
  OBVIOUS
<1>2. /\ \A i \in 1 .. 9 : t[i] = s[i]
      /\ t[10] = u[1] /\ t[11] = u[2]
  OBVIOUS
<1> HIDE DEF S, s, u, t
<1> DEFINE v == s \o u
<1>3. /\ v \in Seq(S) /\ Len(v) = 11
      /\ \A i \in 1 .. 11 : v[i] = IF i <= 9 THEN s[i] ELSE u[i - 9]
  <2> DEFINE A == Len(s)
             B == Len(u)
  <2>1. /\ v \in Seq(S) /\ Len(v) = A + B
        /\ \A i \in 1 .. A + B : v[i] = IF i <= A THEN s[i] ELSE u[i - A]
    BY <1>1, ConcatProperties, Zenon
  <2> HIDE DEF v
  <2> QED
    BY <1>1, <2>1
<1> HIDE DEF v
<1>4. \A i \in 1 .. 11 : i \in 1 .. 9 \/ (i = 10 /\ i - 9 = 1) \/ (i = 11 /\ i - 9 = 2)
  OBVIOUS
<1>5. ASSUME NEW i \in 1 .. 11 PROVE v[i] = t[i]
  <2>1. CASE i \in 1 .. 9
    <3>1. i <= 9
      BY <2>1
    <3>2. v[i] = s[i]
      BY <1>3, <3>1, Zenon
    <3> QED
      BY <1>2, <2>1, <3>2, Zenon
  <2>2. CASE i = 10
    BY <1>2, <1>3, <2>2
  <2>3. CASE i = 11
    BY <1>2, <1>3, <2>3
  <2> QED
    BY <1>4, <2>1, <2>2, <2>3
<1>6. v = t
  BY <1>1, <1>3, <1>5, SeqEqual
<1> QED
  BY <1>6, Zenon DEF s, u, t, v

(* The scripts of get(), put() and del(), step by step.                    *)
LEMMA GetOptionsAre ==
  ASSUME NEW n
  PROVE  GetOptions(n) =
           <<Set("HEADERFUNCTION", "GetResponse"),
             Set("CUSTOMREQUEST", "none"),
             Set("URL", n),
             Set("WRITEDATA", n),
             Set("HEADERDATA", <<"GetResponse", n>>),
             Set("METHOD", "GET"),
             Set("m_headers", n),
             Set("HTTPHEADER", n)>>
BY ConcatSix DEF GetOptions, SetHeaders

(* put() announces the size of the data, and says where it is.             *)
LEMMA PutOptionsAre ==
  ASSUME NEW n
  PROVE  PutOptions(n) =
           <<Set("HEADERFUNCTION", "Status"),
             Set("CUSTOMREQUEST", "none"),
             Set("URL", n),
             Set("WRITEDATA", n),
             Set("HEADERDATA", <<"Status", n>>),
             Set("METHOD", "PUT"),
             Set("METHOD", "PUT"),
             Set("INFILESIZE", n),
             Set("READDATA", n),
             Set("m_headers", n),
             Set("HTTPHEADER", n)>>
BY ConcatNine DEF PutOptions, SetHeaders

(* del() is a GET by another name.                                         *)
LEMMA DelOptionsAre ==
  ASSUME NEW n
  PROVE  DelOptions(n) =
           <<Set("HEADERFUNCTION", "Status"),
             Set("URL", n),
             Set("WRITEDATA", n),
             Set("HEADERDATA", <<"Status", n>>),
             Set("METHOD", "GET"),
             Set("CUSTOMREQUEST", "DELETE"),
             Set("m_headers", n),
             Set("HTTPHEADER", n)>>
BY ConcatSix DEF DelOptions, SetHeaders

-----------------------------------------------------------------------------
TlsNames == {"SSLCERT", "SSLKEY", "KEYPASSWD", "CAPATH", "CAINFO",
             "SSL_VERIFYPEER", "SSL_VERIFYHOST", "SSL_VERIFYSTATUS"}

(* What is true of a step of a call's options, and of the constructor's.   *)
CallStep(s, n) ==
  /\ s[1] \in OptionNames \cup {"m_headers"} /\ s[1] \notin TlsNames
  /\ s[1] = "m_headers" => s[2] = n
  /\ s[1] = "METHOD" => s[2] \in {"GET", "PUT"}
  /\ s[1] = "CUSTOMREQUEST" => s[2] \in {"none", "DELETE"}

(* A call sets an option to one value, none of TLS, and one list of        *)
(* headers.                                                                *)
LEMMA OptionsSteps ==
  ASSUME NEW k \in Kinds, NEW n
  PROVE  LET s == Options(k, n)
         IN  /\ Len(s) \in Nat /\ DOMAIN s = 1 .. Len(s)
             /\ \A j \in DOMAIN s : CallStep(s[j], n)
             /\ \A i, j \in DOMAIN s : s[i][1] = s[j][1] => s[i] = s[j]
<1>1. \A o, x : Set(o, x)[1] = o /\ Set(o, x)[2] = x
  BY DEF Set
<1>2. CASE k = "get"
  <2> DEFINE s == Options(k, n)
  <2>1. s = GetOptions(n)
    BY <1>2 DEF Options
  <2>2. /\ DOMAIN s = 1 .. 8 /\ Len(s) = 8
        /\ s[1] = Set("HEADERFUNCTION", "GetResponse")
        /\ s[2] = Set("CUSTOMREQUEST", "none")
        /\ s[3] = Set("URL", n)
        /\ s[4] = Set("WRITEDATA", n)
        /\ s[5] = Set("HEADERDATA", <<"GetResponse", n>>)
        /\ s[6] = Set("METHOD", "GET")
        /\ s[7] = Set("m_headers", n)
        /\ s[8] = Set("HTTPHEADER", n)
    <3> HIDE DEF s
    <3> QED
      BY <2>1, GetOptionsAre
  <2> HIDE DEF s
  <2>3. DOMAIN s = {1, 2, 3, 4, 5, 6, 7, 8}
    BY <2>2
  <2>4. \A j \in DOMAIN s : CallStep(s[j], n)
    BY <1>1, <2>2, <2>3 DEF CallStep, OptionNames, TlsNames
  <2>5. \A i, j \in DOMAIN s : s[i][1] = s[j][1] => s[i] = s[j]
    BY <1>1, <2>2, <2>3
  <2> QED
    BY <2>2, <2>4, <2>5 DEF s
<1>3. CASE k = "put"
  <2> DEFINE s == Options(k, n)
  <2>1. s = PutOptions(n)
    BY <1>3 DEF Options
  <2>2. /\ DOMAIN s = 1 .. 11 /\ Len(s) = 11
        /\ s[1] = Set("HEADERFUNCTION", "Status")
        /\ s[2] = Set("CUSTOMREQUEST", "none")
        /\ s[3] = Set("URL", n)
        /\ s[4] = Set("WRITEDATA", n)
        /\ s[5] = Set("HEADERDATA", <<"Status", n>>)
        /\ s[6] = Set("METHOD", "PUT")
        /\ s[7] = Set("METHOD", "PUT")
        /\ s[8] = Set("INFILESIZE", n)
        /\ s[9] = Set("READDATA", n)
        /\ s[10] = Set("m_headers", n)
        /\ s[11] = Set("HTTPHEADER", n)
    <3> HIDE DEF s
    <3> QED
      BY <2>1, PutOptionsAre
  <2> HIDE DEF s
  <2>3. DOMAIN s = {1, 2, 3, 4, 5, 6, 7, 8, 9, 10, 11}
    BY <2>2
  <2>4. \A j \in DOMAIN s : CallStep(s[j], n)
    BY <1>1, <2>2, <2>3 DEF CallStep, OptionNames, TlsNames
  <2>5. \A i, j \in DOMAIN s : s[i][1] = s[j][1] => s[i] = s[j]
    BY <1>1, <2>2, <2>3
  <2> QED
    BY <2>2, <2>4, <2>5 DEF s
<1>4. CASE k = "del"
  <2> DEFINE s == Options(k, n)
  <2>1. s = DelOptions(n)
    BY <1>4 DEF Options
  <2>2. /\ DOMAIN s = 1 .. 8 /\ Len(s) = 8
        /\ s[1] = Set("HEADERFUNCTION", "Status")
        /\ s[2] = Set("URL", n)
        /\ s[3] = Set("WRITEDATA", n)
        /\ s[4] = Set("HEADERDATA", <<"Status", n>>)
        /\ s[5] = Set("METHOD", "GET")
        /\ s[6] = Set("CUSTOMREQUEST", "DELETE")
        /\ s[7] = Set("m_headers", n)
        /\ s[8] = Set("HTTPHEADER", n)
    <3> HIDE DEF s
    <3> QED
      BY <2>1, DelOptionsAre
  <2> HIDE DEF s
  <2>3. DOMAIN s = {1, 2, 3, 4, 5, 6, 7, 8}
    BY <2>2
  <2>4. \A j \in DOMAIN s : CallStep(s[j], n)
    BY <1>1, <2>2, <2>3 DEF CallStep, OptionNames, TlsNames
  <2>5. \A i, j \in DOMAIN s : s[i][1] = s[j][1] => s[i] = s[j]
    BY <1>1, <2>2, <2>3
  <2> QED
    BY <2>2, <2>4, <2>5 DEF s
<1> QED
  BY <1>2, <1>3, <1>4 DEF Kinds

(* The constructor's steps set options of TLS and those of Basics.         *)
LEMMA ConstructionSteps ==
  ASSUME NEW cfg
  PROVE  LET s == Construction(cfg)
         IN  /\ Len(s) \in Nat /\ DOMAIN s = 1 .. Len(s)
             /\ \A j \in DOMAIN s :
                  /\ s[j][1] \in TlsNames \cup Basics
                  /\ s[j] = Set(s[j][1], s[j][2])
<1>1. Construction(cfg) \in Seq(Steps(cfg))
  <2>1. "CAPATH" \notin Basics
    BY DEF Basics
  <2> QED
    BY <2>1, ConstructionLeaves
<1>2. \A x \in Steps(cfg) : /\ x[1] \in TlsNames \cup Basics
                            /\ x = Set(x[1], x[2])
  <2> DEFINE names == TlsNames \cup Basics
  <2>1. \A o, x : Set(o, x)[1] = o /\ Set(o, x)[2] = x
    BY DEF Set
  <2>2. ASSUME NEW x \in Steps(cfg)
        PROVE  \E o \in names : \E v : x = Set(o, v)
    BY Zenon DEF Steps, TlsNames, Basics
  <2> HIDE DEF names
  <2>3. \A x \in Steps(cfg) : x[1] \in names /\ x = Set(x[1], x[2])
    BY <2>1, <2>2
  <2> QED
    BY <2>3 DEF names
<1>3. \A j \in DOMAIN Construction(cfg) : Construction(cfg)[j] \in Steps(cfg)
  BY <1>1, LenProperties, ElementOfSeq, Zenon
<1> QED
  BY <1>1, <1>2, <1>3, LenProperties

-----------------------------------------------------------------------------
(* The pieces of a body up to the n-th.                                    *)
Pieces(n) == [i \in 1 .. n |-> i]
Answers   == [status : Codes, index : 0 .. 1, body : 0 .. MaxSize]

HandleTypes ==
  /\ config \subseteq ConfigFields
  /\ pc \in {"construct", "deleted", "idle", "set", "send", "status", "head", "body"}
  /\ DOMAIN opt = OptionNames
  /\ opt["METHOD"] \in {"GET", "PUT"}
  /\ opt["CUSTOMREQUEST"] \in {"none", "DELETE"}
  /\ headers \in Calls \cup {None} /\ call \in Calls \cup {None}
  /\ kind \in Kinds
  /\ size \in 0 .. MaxSize /\ sent \in 0 .. size
  /\ \E n \in 0 .. MaxSize : stored = Pieces(n)
  /\ answer \in Answers
  /\ conn \in {"none", "new", "kept"}
  /\ result \in [ok : BOOLEAN, answer : Answers]

(* The constructor has done the steps before at, and none is undone later. *)
ConstructorInv ==
  /\ pc = "construct" =>
       /\ at \in 1 .. Len(Construction(config)) + 1
       /\ \A o \in TlsNames : Leaves(Construction(config), at - 1, o, Defaults[o], opt[o])
  /\ Usable =>
       \A o \in TlsNames :
         Leaves(Construction(config), Len(Construction(config)), o, Defaults[o], opt[o])

(* So has a call, and libcurl runs only when it has done all of them.      *)
Done(s) == IF s[1] = "m_headers" THEN headers = s[2] ELSE opt[s[1]] = s[2]
CallInv ==
  pc = "set" \/ Performing =>
    /\ call \in Calls
    /\ at \in 1 .. Len(Options(kind, call)) + 1
    /\ Performing => at = Len(Options(kind, call)) + 1
    /\ \A j \in 1 .. at - 1 : Done(Options(kind, call)[j])

(* The pieces the server has are those the ReadContext is past.            *)
UploadInv ==
  /\ pc = "set" => sent = 0
  /\ Performing \/ result.ok => stored = Pieces(sent)

(* The reply is one to this request.                                       *)
RepliesTo(asked) ==
  [status : {200, 404}, index : 0 .. 1, body : 0 .. MaxSize,
   interim : BOOLEAN, http11 : BOOLEAN, wire : {asked}]
Replied ==
  /\ reply \in RepliesTo(Asked)
  /\ reply.status = 200 => sent = size
StatusTaken == IF reply.http11 THEN answer.status = reply.status ELSE answer.status \in {0, 100}
IndexTaken  == kind = "get" => answer.index = reply.index
ReplyInv ==
  /\ pc = "set" \/ Performing => ~ result.ok
  /\ pc \in {"set", "send"} => answer = NoAnswer
  /\ pc \in {"status", "head", "body"} => Replied
  /\ pc = "status" => answer.status \in {0, 100} /\ answer.body = 0
  /\ pc = "head" => StatusTaken /\ answer.body = 0
  /\ pc = "body" => StatusTaken /\ IndexTaken /\ answer.body <= reply.body
  /\ result.ok =>
       Replied /\ StatusTaken /\ IndexTaken /\ answer.body = reply.body /\ result.answer = answer

HandleInv == HandleTypes /\ ConstructorInv /\ CallInv /\ UploadInv /\ ReplyInv

-----------------------------------------------------------------------------
(* What curl_easy_init() leaves in the options the invariant speaks of.    *)
LEMMA DefaultsTypes ==
  /\ DOMAIN Defaults = OptionNames
  /\ Defaults["METHOD"] = "GET" /\ Defaults["CUSTOMREQUEST"] = "none"
  /\ Defaults["SSL_VERIFYSTATUS"] = FALSE
BY DEF Defaults, OptionNames

(* What the options are when libcurl runs.                                 *)
LEMMA PerformOptions ==
  ASSUME HandleTypes, CallInv, Performing
  PROVE  /\ headers = call /\ opt["HTTPHEADER"] = call
         /\ opt["URL"] = call /\ opt["WRITEDATA"] = call
         /\ opt["HEADERFUNCTION"] = IF kind = "get" THEN "GetResponse" ELSE "Status"
         /\ opt["HEADERDATA"] = <<opt["HEADERFUNCTION"], call>>
         /\ opt["METHOD"] = IF kind = "put" THEN "PUT" ELSE "GET"
         /\ opt["CUSTOMREQUEST"] = IF kind = "del" THEN "DELETE" ELSE "none"
         /\ kind = "put" => opt["READDATA"] = call /\ opt["INFILESIZE"] = call
<1> DEFINE s == Options(kind, call)
<1>1. kind \in Kinds
  BY DEF HandleTypes
<1>2. Len(s) \in Nat
  BY <1>1, OptionsSteps
<1>3. \A j \in 1 .. Len(s) : Done(s[j])
  BY <1>2 DEF CallInv
<1>4. \A o, x : Set(o, x)[1] = o /\ Set(o, x)[2] = x
  BY DEF Set
<1>5. \A o, x : o # "m_headers" /\ Done(Set(o, x)) => opt[o] = x
  BY <1>4 DEF Done
<1>6. \A x : Done(Set("m_headers", x)) => headers = x
  BY <1>4 DEF Done
<1>7. CASE kind = "get"
  <2>1. s = GetOptions(call)
    BY <1>7 DEF Options
  <2>2. /\ Len(s) = 8
        /\ s[1] = Set("HEADERFUNCTION", "GetResponse") /\ s[2] = Set("CUSTOMREQUEST", "none")
        /\ s[3] = Set("URL", call) /\ s[4] = Set("WRITEDATA", call)
        /\ s[5] = Set("HEADERDATA", <<"GetResponse", call>>) /\ s[6] = Set("METHOD", "GET")
        /\ s[7] = Set("m_headers", call) /\ s[8] = Set("HTTPHEADER", call)
    <3> HIDE DEF s
    <3> QED
      BY <2>1, GetOptionsAre
  <2> HIDE DEF s
  <2>3. \A j \in {1, 2, 3, 4, 5, 6, 7, 8} : Done(s[j])
    BY <1>3, <2>2
  <2> QED
    BY <1>5, <1>6, <1>7, <2>2, <2>3
<1>8. CASE kind = "put"
  <2>1. s = PutOptions(call)
    BY <1>8 DEF Options
  <2>2. /\ Len(s) = 11
        /\ s[1] = Set("HEADERFUNCTION", "Status") /\ s[2] = Set("CUSTOMREQUEST", "none")
        /\ s[3] = Set("URL", call) /\ s[4] = Set("WRITEDATA", call)
        /\ s[5] = Set("HEADERDATA", <<"Status", call>>) /\ s[6] = Set("METHOD", "PUT")
        /\ s[7] = Set("METHOD", "PUT")
        /\ s[8] = Set("INFILESIZE", call) /\ s[9] = Set("READDATA", call)
        /\ s[10] = Set("m_headers", call) /\ s[11] = Set("HTTPHEADER", call)
    <3> HIDE DEF s
    <3> QED
      BY <2>1, PutOptionsAre
  <2> HIDE DEF s
  <2>3. \A j \in {1, 2, 3, 4, 5, 6, 7, 8, 9, 10, 11} : Done(s[j])
    BY <1>3, <2>2
  <2> QED
    BY <1>5, <1>6, <1>8, <2>2, <2>3
<1>9. CASE kind = "del"
  <2>1. s = DelOptions(call)
    BY <1>9 DEF Options
  <2>2. /\ Len(s) = 8
        /\ s[1] = Set("HEADERFUNCTION", "Status") /\ s[2] = Set("URL", call)
        /\ s[3] = Set("WRITEDATA", call) /\ s[4] = Set("HEADERDATA", <<"Status", call>>)
        /\ s[5] = Set("METHOD", "GET") /\ s[6] = Set("CUSTOMREQUEST", "DELETE")
        /\ s[7] = Set("m_headers", call) /\ s[8] = Set("HTTPHEADER", call)
    <3> HIDE DEF s
    <3> QED
      BY <2>1, DelOptionsAre
  <2> HIDE DEF s
  <2>3. \A j \in {1, 2, 3, 4, 5, 6, 7, 8} : Done(s[j])
    BY <1>3, <2>2
  <2> QED
    BY <1>5, <1>6, <1>9, <2>2, <2>3
<1> QED
  BY <1>1, <1>7, <1>8, <1>9 DEF Kinds

(* So the request on the wire is the one that was asked for.               *)
LEMMA WireIsAsked ==
  ASSUME HandleTypes, CallInv, Performing
  PROVE  Wire = Asked
<1>1. kind \in Kinds
  BY DEF HandleTypes
<1>2. CASE kind = "get"
  BY <1>2, PerformOptions DEF Wire, Asked
<1>3. CASE kind = "put"
  BY <1>3, PerformOptions DEF Wire, Asked
<1>4. CASE kind = "del"
  BY <1>4, PerformOptions DEF Wire, Asked
<1> QED
  BY <1>1, <1>2, <1>3, <1>4 DEF Kinds

-----------------------------------------------------------------------------
(* A step of a script writes one option, or the list of headers.           *)
LEMMA SetOptionStep ==
  ASSUME HandleTypes, ConstructorInv, CallInv, SetOption
  PROVE  LET s == Script[at]
         IN  /\ at' = at + 1 /\ at \in 1 .. Len(Script) /\ Len(Script) \in Nat
             /\ s[1] # "m_headers" => opt' = [opt EXCEPT ![s[1]] = s[2]] /\ headers' = headers
             /\ s[1] = "m_headers" => headers' = s[2] /\ opt' = opt
             /\ \/ /\ pc = "construct"
                   /\ s[1] \in TlsNames \cup Basics
                   /\ s = Set(s[1], s[2])
                \/ pc = "set" /\ CallStep(s, call) /\ call \in Calls
<1>1. CASE pc = "construct"
  <2>1. Script = Construction(config)
    BY <1>1 DEF Script
  <2>2. Len(Script) \in Nat /\ at \in 1 .. Len(Script) /\ DOMAIN Script = 1 .. Len(Script)
    BY <1>1, <2>1, ConstructionSteps DEF SetOption, ToSet, ConstructorInv
  <2> QED
    BY <1>1, <2>1, <2>2, ConstructionSteps DEF SetOption
<1>2. CASE pc = "set"
  <2>1. Script = Options(kind, call) /\ kind \in Kinds
    BY <1>2 DEF Script, HandleTypes
  <2>2. Len(Script) \in Nat /\ at \in 1 .. Len(Script) /\ DOMAIN Script = 1 .. Len(Script)
    BY <1>2, <2>1, OptionsSteps DEF SetOption, ToSet, CallInv
  <2> QED
    BY <1>2, <2>1, <2>2, OptionsSteps DEF SetOption, CallInv
<1> QED
  BY <1>1, <1>2 DEF SetOption, ToSet

(* Each step of Next preserves each part of the invariant: first what the  *)
(* constructor has left in the options of TLS, which no call touches.      *)
LEMMA ConstructorStep == HandleInv /\ [Next]_vars => ConstructorInv'
<1> SUFFICES ASSUME HandleInv, [Next]_vars
             PROVE  ConstructorInv'
  OBVIOUS
<1> USE DEF HandleInv
<1>1. CASE SetOption
  <2>1. pc' = pc /\ config' = config
    BY <1>1 DEF SetOption, callVars
  <2>2. CASE pc = "construct"
    <3> DEFINE s == Construction(config)[at]
    <3>1. Script = Construction(config)
      BY <2>2 DEF Script
    <3>2. /\ at' = at + 1 /\ at \in 1 .. Len(Construction(config)) /\ Len(Construction(config)) \in Nat
          /\ s[1] \in TlsNames \cup Basics
          /\ s = Set(s[1], s[2])
          /\ opt' = [opt EXCEPT ![s[1]] = s[2]]
      BY <1>1, <2>2, <3>1, SetOptionStep DEF TlsNames, Basics
    <3>3. DOMAIN opt = OptionNames /\ TlsNames \subseteq OptionNames
      BY DEF HandleTypes, TlsNames, OptionNames
    <3>4. ASSUME NEW o \in TlsNames
          PROVE  Leaves(Construction(config), at' - 1, o, Defaults[o], opt'[o])
      <4>1. Leaves(Construction(config), at - 1, o, Defaults[o], opt[o])
        BY <2>2 DEF ConstructorInv
      <4>2. at - 1 \in Nat /\ at - 1 + 1 = at /\ at' - 1 = at
        BY <3>2
      <4>3. CASE s[1] = o
        <5>1. opt'[o] = s[2] /\ s = Set(o, s[2])
          BY <3>2, <3>3, <4>3
        <5> QED
          BY <4>1, <4>2, <5>1, LeavesStep
      <4>4. CASE s[1] # o
        <5>1. opt'[o] = opt[o]
          BY <3>2, <3>3, <4>4
        <5> QED
          BY <4>1, <4>2, <4>4, <5>1, LeavesStep
      <4> QED
        BY <4>3, <4>4
    <3>5. at' \in 1 .. Len(Construction(config)) + 1
      BY <3>2
    <3> QED
      BY <2>1, <2>2, <3>4, <3>5 DEF ConstructorInv, Usable
  <2>3. CASE pc = "set"
    <3> DEFINE s == Script[at]
    <3>1. /\ s[1] \notin TlsNames
          /\ s[1] # "m_headers" => opt' = [opt EXCEPT ![s[1]] = s[2]]
          /\ s[1] = "m_headers" => opt' = opt
      BY <1>1, <2>3, SetOptionStep DEF CallStep
    <3> HIDE DEF s
    <3>2. \A o \in TlsNames : opt'[o] = opt[o]
      BY <3>1 DEF HandleTypes, TlsNames, OptionNames
    <3> QED
      BY <2>1, <2>3, <3>2 DEF ConstructorInv, Usable
  <2> QED
    BY <1>1, <2>2, <2>3 DEF SetOption, ToSet
<1>2. CASE Constructed
  <2>1. Script = Construction(config) /\ at - 1 = Len(Construction(config))
    <3>1. Len(Construction(config)) \in Nat
      BY ConstructionSteps
    <3> QED
      BY <1>2, <3>1 DEF Constructed, Script, AllSet
  <2> QED
    BY <1>2, <2>1 DEF Constructed, ConstructorInv, Usable, callVars
<1>3. CASE ConstructorThrows
  BY <1>3 DEF ConstructorThrows, ConstructorInv, Usable, callVars
<1>4. ASSUME NEW k \in Kinds, NEW n \in 0 .. MaxSize, Begin(k, n)
      PROVE  ConstructorInv'
  BY <1>4 DEF Begin, ConstructorInv, Usable
<1>5. ASSUME \/ SetOptionThrows \/ Perform \/ ReadPiece \/ Resend \/ Answer
             \/ InterimStatusLine \/ StatusLine \/ HeaderLines \/ WritePiece
             \/ Return \/ TransferFails \/ UNCHANGED vars
      PROVE  ConstructorInv'
  <2>1. \/ config' = config /\ opt' = opt /\ (Usable' => Usable) /\ pc' # "construct"
        \/ UNCHANGED vars
    BY <1>5 DEF SetOptionThrows, Perform, ReadPiece, Resend, Answer, InterimStatusLine,
                StatusLine, HeaderLines, WritePiece, Return, TransferFails, Performing,
                Usable, callVars, ToSet
  <2> QED
    BY <2>1 DEF ConstructorInv, Usable, vars
<1> QED
  BY <1>1, <1>2, <1>3, <1>4, <1>5 DEF Next

(* What a call has set so far stays until the call is over.                *)
LEMMA CallStepInv == HandleInv /\ [Next]_vars => CallInv'
<1> SUFFICES ASSUME HandleInv, [Next]_vars
             PROVE  CallInv'
  OBVIOUS
<1> USE DEF HandleInv
<1>1. CASE SetOption
  <2>1. /\ pc' = pc /\ call' = call /\ kind' = kind /\ ~ Performing
        /\ Performing' <=> Performing
    BY <1>1 DEF SetOption, ToSet, callVars, Performing
  <2>2. CASE pc = "set"
    <3> DEFINE s == Options(kind, call)
    <3>1. Script = s /\ kind \in Kinds
      BY <2>2 DEF Script, HandleTypes
    <3>2. /\ at' = at + 1 /\ at \in 1 .. Len(s) /\ Len(s) \in Nat
          /\ s[at][1] # "m_headers" => opt' = [opt EXCEPT ![s[at][1]] = s[at][2]] /\ headers' = headers
          /\ s[at][1] = "m_headers" => headers' = s[at][2] /\ opt' = opt
          /\ CallStep(s[at], call) /\ call \in Calls
      BY <1>1, <2>2, <3>1, SetOptionStep
    <3>3. /\ DOMAIN s = 1 .. Len(s)
          /\ \A i, j \in DOMAIN s : s[i][1] = s[j][1] => s[i] = s[j]
      BY <3>1, OptionsSteps
    <3>4. \A j \in 1 .. at - 1 : Done(s[j])
      BY <2>2 DEF CallInv
    <3>5. (DOMAIN opt) = OptionNames
      BY DEF HandleTypes
    <3>10. \A j \in DOMAIN s : CallStep(s[j], call)
      BY <3>1, OptionsSteps
    <3> HIDE DEF s
    <3>6. IF s[at][1] = "m_headers" THEN headers' = s[at][2] ELSE opt'[s[at][1]] = s[at][2]
      <4>1. CASE s[at][1] = "m_headers"
        BY <3>2, <4>1
      <4>2. CASE s[at][1] # "m_headers"
        <5>1. s[at][1] \in DOMAIN opt
          BY <3>2, <3>5, <4>2 DEF CallStep
        <5> QED
          BY <3>2, <4>2, <5>1
      <4> QED
        BY <4>1, <4>2
    <3>7. ASSUME NEW j \in 1 .. at - 1
          PROVE  IF s[j][1] = "m_headers" THEN headers' = s[j][2] ELSE opt'[s[j][1]] = s[j][2]
      <4>0. CASE s[j][1] = s[at][1]
        <5>1. s[j] = s[at]
          BY <3>2, <3>3, <4>0
        <5> QED
          BY <3>6, <5>1
      <4>1. CASE s[j][1] # s[at][1]
        <5>1. IF s[j][1] = "m_headers" THEN headers = s[j][2] ELSE opt[s[j][1]] = s[j][2]
          BY <3>4 DEF Done
        <5>2. CASE s[at][1] = "m_headers"
          BY <3>2, <4>1, <5>1, <5>2
        <5>3. CASE s[at][1] # "m_headers"
          <6>1. headers' = headers /\ \A o \in DOMAIN opt : o # s[at][1] => opt'[o] = opt[o]
            BY <3>2, <5>3
          <6>2. s[j][1] \in OptionNames \cup {"m_headers"}
            BY <3>2, <3>3, <3>10 DEF CallStep
          <6> QED
            BY <3>5, <4>1, <5>1, <6>1, <6>2
        <5> QED
          BY <5>2, <5>3
      <4> QED
        BY <4>0, <4>1
    <3>8. \A j \in 1 .. at' - 1 : j \in 1 .. at - 1 \/ j = at
      BY <3>2
    <3>9. at' \in 1 .. Len(s) + 1
      BY <3>2
    <3>11. \A j \in 1 .. at' - 1 :
             IF s[j][1] = "m_headers" THEN headers' = s[j][2] ELSE opt'[s[j][1]] = s[j][2]
      BY <3>6, <3>7, <3>8
    <3>12. s = Options(kind', call')
      BY <2>1 DEF s
    <3>13. CallInv' <=>
             (pc' = "set" \/ Performing' =>
                /\ call' \in Calls
                /\ at' \in 1 .. Len(Options(kind', call')) + 1
                /\ Performing' => at' = Len(Options(kind', call')) + 1
                /\ \A j \in 1 .. at' - 1 :
                     IF Options(kind', call')[j][1] = "m_headers"
                     THEN headers' = Options(kind', call')[j][2]
                     ELSE opt'[Options(kind', call')[j][1]] = Options(kind', call')[j][2])
      BY DEF CallInv, Done
    <3> QED
      BY <2>1, <3>2, <3>9, <3>11, <3>12, <3>13, Zenon
  <2> QED
    BY <1>1, <2>1, <2>2 DEF SetOption, ToSet, CallInv
<1>2. ASSUME \/ Constructed \/ ConstructorThrows \/ SetOptionThrows \/ Return \/ TransferFails
      PROVE  CallInv'
  BY <1>2 DEF Constructed, ConstructorThrows, SetOptionThrows, Return, TransferFails, CallInv, Performing
<1>3. ASSUME NEW k \in Kinds, NEW n \in 0 .. MaxSize, Begin(k, n)
      PROVE  CallInv'
  <2>1. pc' = "set" /\ at' = 1 /\ call' = call + 1 /\ kind' = k /\ call < MaxCalls
    BY <1>3 DEF Begin
  <2>2. call' \in Calls
    BY <2>1, HandleAssumption DEF HandleTypes, Calls, None
  <2>3. Len(Options(k, call')) \in Nat
    BY OptionsSteps
  <2>4. 1 \in 1 .. Len(Options(k, call')) + 1 /\ 1 .. 1 - 1 = {}
    BY <2>3
  <2> QED
    BY <2>1, <2>2, <2>4 DEF CallInv, Performing
<1>4. CASE Perform
  <2>1. /\ pc = "set" /\ AllSet /\ Script = Options(kind, call)
        /\ UNCHANGED <<at, opt, headers, call, kind>>
    BY <1>4 DEF Perform, Script, callVars
  <2> QED
    BY <1>4, <2>1 DEF CallInv, Performing, AllSet, Done
<1>5. ASSUME \/ ReadPiece \/ Resend \/ Answer \/ InterimStatusLine \/ StatusLine
             \/ HeaderLines \/ WritePiece
      PROVE  CallInv'
  <2>1. Performing /\ UNCHANGED <<at, opt, headers, call, kind>>
    BY <1>5 DEF ReadPiece, Resend, Answer, InterimStatusLine, StatusLine, HeaderLines,
                WritePiece, callVars, Performing
  <2> QED
    BY <2>1 DEF CallInv, Done, Performing
<1>6. CASE UNCHANGED vars
  BY <1>6 DEF vars, CallInv, Done, Performing
<1> QED
  BY <1>1, <1>2, <1>3, <1>4, <1>5, <1>6 DEF Next

(* A longer upload, and a callback's write.                                *)
LEMMA PiecesGrow ==
  ASSUME NEW n \in Nat
  PROVE  Append(Pieces(n), n + 1) = Pieces(n + 1) /\ Len(Pieces(n)) = n
<1>1. \A m \in Nat : Pieces(m) \in Seq(Nat) /\ Len(Pieces(m)) = m
  BY DEF Pieces
<1>2. /\ Append(Pieces(n), n + 1) \in Seq(Nat) /\ Len(Append(Pieces(n), n + 1)) = n + 1
      /\ \A i \in 1 .. n : Append(Pieces(n), n + 1)[i] = i
      /\ Append(Pieces(n), n + 1)[n + 1] = n + 1
  <2>1. \A i \in 1 .. n : Pieces(n)[i] = i
    BY DEF Pieces
  <2> QED
    BY <1>1, <2>1, AppendProperties
<1>3. \A i \in 1 .. n + 1 : Pieces(n + 1)[i] = i /\ (i \in 1 .. n \/ i = n + 1)
  BY DEF Pieces
<1>4. Append(Pieces(n), n + 1) = Pieces(n + 1)
  BY <1>1, <1>2, <1>3, SeqEqual
<1> QED
  BY <1>1, <1>4

(* Each step keeps the types.                                              *)
LEMMA TypesStep == HandleInv /\ [Next]_vars => HandleTypes'
<1> SUFFICES ASSUME HandleInv, [Next]_vars
             PROVE  HandleTypes'
  OBVIOUS
<1> USE DEF HandleInv
<1>1. CASE SetOption
  <2> DEFINE s == Script[at]
  <2>1. /\ s[1] # "m_headers" => opt' = [opt EXCEPT ![s[1]] = s[2]] /\ headers' = headers
        /\ s[1] = "m_headers" => headers' = s[2] /\ opt' = opt /\ headers' \in Calls
        /\ s[1] = "METHOD" => s[2] \in {"GET", "PUT"}
        /\ s[1] = "CUSTOMREQUEST" => s[2] \in {"none", "DELETE"}
    BY <1>1, SetOptionStep DEF CallStep, TlsNames, Basics
  <2>2. UNCHANGED <<pc, sent, answer, result, callVars, wireVars>>
    BY <1>1 DEF SetOption
  <2> HIDE DEF s
  <2>3. /\ DOMAIN opt' = OptionNames /\ headers' \in Calls \cup {None}
        /\ opt'["METHOD"] \in {"GET", "PUT"}
        /\ opt'["CUSTOMREQUEST"] \in {"none", "DELETE"}
    <3>1. /\ DOMAIN opt = OptionNames /\ headers \in Calls \cup {None}
          /\ opt["METHOD"] \in {"GET", "PUT"} /\ opt["CUSTOMREQUEST"] \in {"none", "DELETE"}
      BY DEF HandleTypes
    <3>2. CASE s[1] = "m_headers"
      BY <2>1, <3>1, <3>2
    <3>3. CASE s[1] # "m_headers"
      <4>1. /\ DOMAIN opt' = OptionNames /\ headers' = headers
            /\ \A o \in OptionNames : opt'[o] = IF o = s[1] THEN s[2] ELSE opt[o]
        BY <2>1, <3>1, <3>3
      <4>2. "METHOD" \in OptionNames /\ "CUSTOMREQUEST" \in OptionNames
        BY DEF OptionNames
      <4>3. /\ opt'["METHOD"] = IF "METHOD" = s[1] THEN s[2] ELSE opt["METHOD"]
            /\ opt'["CUSTOMREQUEST"] = IF "CUSTOMREQUEST" = s[1] THEN s[2] ELSE opt["CUSTOMREQUEST"]
        BY <4>1, <4>2
      <4> QED
        BY <2>1, <3>1, <4>1, <4>3
    <3> QED
      BY <3>2, <3>3
  <2> QED
    BY <2>2, <2>3 DEF HandleTypes, callVars, wireVars
<1>2. ASSUME Constructed \/ ConstructorThrows \/ SetOptionThrows \/ Resend \/ TransferFails
      PROVE  HandleTypes'
  BY <1>2 DEF Constructed, ConstructorThrows, SetOptionThrows, Resend, TransferFails,
              HandleTypes, callVars, wireVars
<1>3. ASSUME NEW k \in Kinds, NEW n \in 0 .. MaxSize, Begin(k, n)
      PROVE  HandleTypes'
  <2>1. call' \in Calls
    BY <1>3, HandleAssumption DEF Begin, HandleTypes, Calls, None
  <2>2. NoAnswer \in Answers /\ NoResult \in [ok : BOOLEAN, answer : Answers]
    BY HandleAssumption DEF NoAnswer, NoResult, Answers, Codes
  <2>3. size' \in 0 .. MaxSize /\ 0 \in 0 .. size'
    BY <1>3, HandleAssumption DEF Begin
  <2> QED
    BY <1>3, <2>1, <2>2, <2>3 DEF Begin, HandleTypes, wireVars
<1>4. CASE Perform
  <2>1. stored' = Pieces(0) /\ 0 \in 0 .. MaxSize
    BY <1>4, HandleAssumption DEF Perform, Pieces
  <2> QED
    BY <1>4, <2>1 DEF Perform, HandleTypes, callVars
<1>5. CASE ReadPiece
  <2>1. stored = Pieces(sent) /\ sent \in Nat /\ sent + 1 \in 0 .. size /\ sent + 1 \in 0 .. MaxSize
    BY <1>5, HandleAssumption DEF ReadPiece, UploadInv, HandleTypes, Performing
  <2>2. stored' = Pieces(sent + 1)
    BY <1>5, <2>1, PiecesGrow DEF ReadPiece
  <2> QED
    BY <1>5, <2>1, <2>2 DEF ReadPiece, HandleTypes, callVars
<1>6. CASE Answer
  BY <1>6 DEF Answer, HandleTypes, callVars
<1>7. CASE InterimStatusLine
  <2>1. answer' \in Answers
    BY <1>7 DEF InterimStatusLine, Write, HandleTypes, Answers, Codes
  <2> QED
    BY <1>7, <2>1 DEF InterimStatusLine, HandleTypes, callVars
<1>8. CASE StatusLine
  <2>1. reply.status \in Codes
    BY <1>8 DEF StatusLine, ReplyInv, Replied, RepliesTo, Codes
  <2>2. answer' \in Answers
    BY <1>8, <2>1 DEF StatusLine, Write, HandleTypes, Answers
  <2> QED
    BY <1>8, <2>2 DEF StatusLine, HandleTypes, callVars, wireVars
<1>9. CASE HeaderLines
  <2>1. reply.index \in 0 .. 1
    BY <1>9 DEF HeaderLines, ReplyInv, Replied, RepliesTo
  <2>2. answer' \in Answers
    BY <1>9, <2>1 DEF HeaderLines, Write, HandleTypes, Answers
  <2> QED
    BY <1>9, <2>2 DEF HeaderLines, HandleTypes, callVars, wireVars
<1>10. CASE WritePiece
  <2>1. Performing /\ opt["WRITEDATA"] = call
    BY <1>10, PerformOptions DEF WritePiece, Performing
  <2>2. reply.body \in 0 .. MaxSize
    BY <1>10 DEF WritePiece, ReplyInv, Replied, RepliesTo
  <2>3. answer.body \in 0 .. MaxSize /\ answer.body < reply.body
    BY <1>10, <2>1 DEF WritePiece, received, HandleTypes, Answers
  <2>4. answer.body + 1 \in 0 .. MaxSize
    BY <2>2, <2>3, HandleAssumption
  <2>5. answer' \in Answers
    BY <1>10, <2>4 DEF WritePiece, Write, HandleTypes, Answers
  <2> QED
    BY <1>10, <2>5 DEF WritePiece, HandleTypes, callVars, wireVars
<1>11. CASE Return
  <2>1. result' \in [ok : BOOLEAN, answer : Answers]
    BY <1>11 DEF Return, HandleTypes
  <2> QED
    BY <1>11, <2>1 DEF Return, HandleTypes, callVars
<1>12. CASE UNCHANGED vars
  BY <1>12 DEF vars, HandleTypes
<1> QED
  BY <1>1, <1>2, <1>3, <1>4, <1>5, <1>6, <1>7, <1>8, <1>9, <1>10, <1>11, <1>12 DEF Next

(* The pieces the server has are those read so far, each once.             *)
LEMMA UploadStep == HandleInv /\ [Next]_vars => UploadInv'
<1> SUFFICES ASSUME HandleInv, [Next]_vars
             PROVE  UploadInv'
  OBVIOUS
<1> USE DEF HandleInv
<1>1. ASSUME \/ SetOption \/ Constructed \/ ConstructorThrows \/ SetOptionThrows
             \/ TransferFails \/ UNCHANGED vars
      PROVE  UploadInv'
  BY <1>1 DEF SetOption, Constructed, ConstructorThrows, SetOptionThrows, TransferFails,
              wireVars, vars, UploadInv, Performing
<1>2. ASSUME NEW k \in Kinds, NEW n \in 0 .. MaxSize, Begin(k, n)
      PROVE  UploadInv'
  BY <1>2 DEF Begin, UploadInv, Performing, NoResult
<1>3. CASE Perform
  <2>1. Pieces(0) = << >>
    BY DEF Pieces
  <2> QED
    BY <1>3, <2>1 DEF Perform, UploadInv, ReplyInv
<1>4. CASE ReadPiece
  <2>1. stored = Pieces(sent) /\ sent \in Nat
    BY <1>4, HandleAssumption DEF ReadPiece, UploadInv, HandleTypes, Performing
  <2>2. stored' = Pieces(sent + 1) /\ sent' = sent + 1 /\ pc' = "send"
    BY <1>4, <2>1, PiecesGrow DEF ReadPiece
  <2> QED
    BY <2>2 DEF UploadInv
<1>5. ASSUME \/ Resend \/ Answer \/ InterimStatusLine \/ StatusLine \/ HeaderLines
             \/ WritePiece \/ Return
      PROVE  UploadInv'
  <2>1. Performing /\ UNCHANGED <<stored, sent>> /\ pc' # "set"
    BY <1>5 DEF Resend, Answer, InterimStatusLine, StatusLine, HeaderLines, WritePiece,
                Return, Performing, wireVars
  <2> QED
    BY <2>1 DEF UploadInv
<1> QED
  BY <1>1, <1>2, <1>3, <1>4, <1>5 DEF Next

(* A reply whose interim lines have gone by is a reply.                    *)
LEMMA InterimGone ==
  ASSUME NEW asked, NEW r \in RepliesTo(asked), NEW n, n = [r EXCEPT !.interim = FALSE]
  PROVE  n \in RepliesTo(asked) /\ n.status = r.status
<1>1. /\ r.status \in {200, 404} /\ r.index \in 0 .. 1 /\ r.body \in 0 .. MaxSize
      /\ r.http11 \in BOOLEAN /\ r.wire = asked
  BY DEF RepliesTo
<1>2. n = [status |-> r.status, index |-> r.index, body |-> r.body,
           interim |-> FALSE, http11 |-> r.http11, wire |-> r.wire]
  BY DEF RepliesTo
<1>3. [status |-> r.status, index |-> r.index, body |-> r.body,
       interim |-> FALSE, http11 |-> r.http11, wire |-> r.wire] \in RepliesTo(asked)
  BY <1>1, Zenon DEF RepliesTo
<1>4. n.status = r.status
  BY <1>2
<1> QED
  BY <1>2, <1>3, <1>4, Zenon

(* Between the status line and the last piece, the answer follows the reply. *)
LEMMA ReplyStep == HandleInv /\ [Next]_vars => ReplyInv'
<1> SUFFICES ASSUME HandleInv, [Next]_vars
             PROVE  ReplyInv'
  OBVIOUS
<1> USE DEF HandleInv
<1>0. /\ UNCHANGED <<kind, call>> => Asked' = Asked
      /\ UNCHANGED <<kind, call, size, sent, reply>> => (Replied' <=> Replied)
      /\ UNCHANGED <<answer, reply>> => (StatusTaken' <=> StatusTaken)
      /\ UNCHANGED <<answer, reply, kind>> => (IndexTaken' <=> IndexTaken)
  <2>1. UNCHANGED <<kind, call>> => Asked' = Asked
    BY DEF Asked
  <2>2. ASSUME UNCHANGED <<kind, call, size, sent, reply>>
        PROVE  Replied' <=> Replied
    BY <2>1, <2>2 DEF Replied, RepliesTo
  <2>3. UNCHANGED <<answer, reply>> => (StatusTaken' <=> StatusTaken)
    BY DEF StatusTaken
  <2>4. UNCHANGED <<answer, reply, kind>> => (IndexTaken' <=> IndexTaken)
    BY DEF IndexTaken
  <2> QED
    BY <2>1, <2>2, <2>3, <2>4
<1>1. ASSUME \/ SetOption \/ Constructed \/ ConstructorThrows \/ SetOptionThrows
             \/ TransferFails \/ UNCHANGED vars
      PROVE  ReplyInv'
  <2>1. /\ UNCHANGED <<kind, call, size, sent, reply, answer, result>>
        /\ pc' = pc \/ pc' \in {"idle", "deleted"}
    BY <1>1 DEF SetOption, Constructed, ConstructorThrows, SetOptionThrows, TransferFails,
                wireVars, callVars, vars
  <2> QED
    BY <1>0, <2>1 DEF ReplyInv, Performing
<1>2. ASSUME NEW k \in Kinds, NEW n \in 0 .. MaxSize, Begin(k, n)
      PROVE  ReplyInv'
  BY <1>2 DEF Begin, ReplyInv, Performing, NoResult
<1>3. ASSUME Perform \/ ReadPiece \/ Resend
      PROVE  ReplyInv'
  <2>1. pc \in {"set", "send"} /\ pc' = "send" /\ UNCHANGED <<answer, result>>
    BY <1>3 DEF Perform, ReadPiece, Resend
  <2> QED
    BY <2>1 DEF ReplyInv, Performing
<1>4. CASE Answer
  <2>1. pc = "send" /\ pc' = "status" /\ UNCHANGED <<answer, result, kind, call, size, sent>>
    BY <1>4 DEF Answer, callVars
  <2>2. Wire = Asked /\ Asked' = Asked
    BY <1>0, <2>1, WireIsAsked DEF Performing
  <2>3. Len(stored) = sent
    BY <2>1, HandleAssumption, PiecesGrow DEF UploadInv, Performing, HandleTypes
  <2>4. Replied'
    <3>1. PICK c \in {200, 404}, b \in 0 .. MaxSize, i \in BOOLEAN, h \in BOOLEAN, x \in 0 .. 1 :
            /\ c = 200 => Len(stored) = size
            /\ reply' = [status |-> c, index |-> x, body |-> b, interim |-> i,
                         http11 |-> h, wire |-> Wire]
      BY <1>4 DEF Answer
    <3> QED
      BY <2>1, <2>2, <2>3, <3>1 DEF Replied, RepliesTo
  <2> QED
    BY <2>1, <2>4 DEF ReplyInv, Performing, NoAnswer
<1>5. CASE InterimStatusLine
  <2>1. /\ pc = "status" /\ pc' = pc /\ UNCHANGED <<result, kind, call, size, sent>>
        /\ reply' = [reply EXCEPT !.interim = FALSE]
        /\ answer' = [answer EXCEPT !.status = 100]
    BY <1>5, PerformOptions DEF InterimStatusLine, callVars, Performing, Write
  <2>2. Asked' = Asked
    BY <1>0, <2>1
  <2>3. Replied'
    <3>1. Replied
      BY <2>1 DEF ReplyInv
    <3>2. reply' \in RepliesTo(Asked) /\ reply'.status = reply.status
      <4>1. reply \in RepliesTo(Asked)
        BY <3>1 DEF Replied
      <4>2. reply' = [reply EXCEPT !.interim = FALSE]
        BY <2>1
      <4> QED
        BY <4>1, <4>2, InterimGone
    <3>3. reply'.status = 200 => sent' = size'
      BY <2>1, <3>1, <3>2 DEF Replied
    <3> QED
      BY <2>2, <3>2, <3>3 DEF Replied
  <2>4. answer'.status = 100 /\ answer'.body = answer.body
    BY <2>1 DEF HandleTypes, Answers
  <2> QED
    BY <2>1, <2>3, <2>4 DEF ReplyInv, Performing
<1>6. CASE StatusLine
  <2>1. /\ pc = "status" /\ pc' = "head" /\ UNCHANGED <<result, kind, call, size, sent, reply>>
        /\ answer' = IF reply.http11 THEN [answer EXCEPT !.status = reply.status] ELSE answer
    BY <1>6, PerformOptions DEF StatusLine, callVars, wireVars, Performing, Write
  <2>2. answer'.body = answer.body /\ (reply.http11 => answer'.status = reply.status)
    BY <2>1 DEF HandleTypes, Answers
  <2>3. StatusTaken'
    BY <2>1, <2>2 DEF StatusTaken, ReplyInv
  <2> QED
    BY <1>0, <2>1, <2>2, <2>3 DEF ReplyInv, Performing
<1>7. CASE HeaderLines
  <2>1. /\ pc = "head" /\ pc' = "body" /\ UNCHANGED <<result, kind, call, size, sent, reply>>
        /\ answer' = IF kind = "get" THEN [answer EXCEPT !.index = reply.index] ELSE answer
    BY <1>7, PerformOptions DEF HeaderLines, callVars, wireVars, Performing, Write
  <2>2. /\ answer'.body = answer.body /\ answer'.status = answer.status
        /\ kind = "get" => answer'.index = reply.index
    BY <2>1 DEF HandleTypes, Answers
  <2>3. StatusTaken' /\ IndexTaken'
    BY <2>1, <2>2 DEF StatusTaken, IndexTaken, ReplyInv
  <2>4. reply.body \in Nat
    BY <2>1, HandleAssumption DEF ReplyInv, Replied, RepliesTo
  <2> QED
    BY <1>0, <2>1, <2>2, <2>3, <2>4 DEF ReplyInv, Performing
<1>8. CASE WritePiece
  <2>1. /\ pc = "body" /\ pc' = pc /\ UNCHANGED <<result, kind, call, size, sent, reply>>
        /\ answer.body < reply.body
        /\ answer' = [answer EXCEPT !.body = answer.body + 1]
    BY <1>8, PerformOptions DEF WritePiece, received, callVars, wireVars, Performing, Write
  <2>2. reply.body \in Nat /\ answer.body \in Nat
    BY <2>1, HandleAssumption DEF ReplyInv, Replied, RepliesTo, HandleTypes, Answers
  <2>3. /\ answer'.body = answer.body + 1 /\ answer'.body <= reply.body
        /\ answer'.status = answer.status /\ answer'.index = answer.index
    BY <2>1, <2>2 DEF HandleTypes, Answers
  <2>4. StatusTaken' /\ IndexTaken'
    BY <2>1, <2>3 DEF StatusTaken, IndexTaken, ReplyInv
  <2> QED
    BY <1>0, <2>1, <2>3, <2>4 DEF ReplyInv, Performing
<1>9. CASE Return
  <2>1. /\ pc = "body" /\ pc' = "idle" /\ UNCHANGED <<answer, kind, call, size, sent, reply>>
        /\ answer.body = reply.body /\ result'.answer = answer
    BY <1>9, PerformOptions DEF Return, received, callVars, Performing
  <2> QED
    BY <1>0, <2>1 DEF ReplyInv, Performing
<1> QED
  BY <1>1, <1>2, <1>3, <1>4, <1>5, <1>6, <1>7, <1>8, <1>9 DEF Next

-----------------------------------------------------------------------------
(* The constructor starts with what curl_easy_init() leaves, and from then *)
(* on the invariant holds.                                                 *)
LEMMA HandleInit == Init => HandleInv
<1> SUFFICES ASSUME Init
             PROVE  HandleInv
  OBVIOUS
<1>1. HandleTypes
  <2>1. << >> = Pieces(0) /\ 0 \in 0 .. MaxSize
    BY HandleAssumption DEF Pieces
  <2>2. NoAnswer \in Answers /\ NoResult \in [ok : BOOLEAN, answer : Answers]
    BY HandleAssumption DEF NoAnswer, NoResult, Answers, Codes
  <2> QED
    BY <2>1, <2>2, DefaultsTypes DEF Init, HandleTypes, Kinds
<1>2. ConstructorInv
  <2>1. Len(Construction(config)) \in Nat
    BY ConstructionSteps
  <2>2. \A o \in TlsNames : Leaves(Construction(config), 0, o, Defaults[o], opt[o])
    BY DEF Leaves, Init
  <2> QED
    BY <2>1, <2>2 DEF Init, ConstructorInv, Usable
<1>3. CallInv /\ UploadInv /\ ReplyInv
  BY DEF Init, CallInv, UploadInv, ReplyInv, Performing, NoResult
<1> QED
  BY <1>1, <1>2, <1>3 DEF HandleInv

(***************************************************************************)
(* The inductive invariant of a handle: how far the constructor or a call  *)
(* is with its options, what the options set so far are, and how far the   *)
(* reply of the call has come.                                             *)
(***************************************************************************)
THEOREM HandleInvariance == Spec => []HandleInv
<1>1. HandleInv /\ [Next]_vars => HandleInv'
  BY TypesStep, ConstructorStep, CallStepInv, UploadStep, ReplyStep DEF HandleInv
<1> QED
  BY <1>1, HandleInit, PTL DEF Spec

(* Every option, counter and body of a handle stays of its type.           *)
THEOREM HandleTypeCorrect == Spec => []TypeOK
<1>1. HandleInv => TypeOK
  <2> SUFFICES ASSUME HandleInv
               PROVE  TypeOK
    OBVIOUS
  <2>1. Len(stored) \in 0 .. MaxSize
    <3>1. PICK n \in 0 .. MaxSize : stored = Pieces(n)
      BY DEF HandleInv, HandleTypes
    <3>2. Len(Pieces(n)) = n
      BY PiecesGrow
    <3> QED
      BY <3>1, <3>2
  <2> QED
    BY <2>1 DEF HandleInv, HandleTypes, TypeOK, Answers
<1> QED
  BY <1>1, HandleInvariance, PTL

(***************************************************************************)
(* What get(), put() or del() lets libcurl send is this call's request,    *)
(* whatever calls came before on the handle and wherever they stopped.     *)
(***************************************************************************)
THEOREM OwnRequest == Spec => []WireIsThisCall
<1>1. HandleInv => WireIsThisCall
  BY WireIsAsked DEF HandleInv, WireIsThisCall
<1> QED
  BY <1>1, HandleInvariance, PTL

(* While libcurl runs, what its options point to is alive and of its type. *)
THEOREM NoDanglingPointer == Spec => []PointersLive
<1>1. HandleInv => PointersLive
  <2> SUFFICES ASSUME HandleInv, Performing
               PROVE  PointersLive
    BY DEF PointersLive
  <2> QED
    BY PerformOptions DEF HandleInv, PointersLive
<1> QED
  BY <1>1, HandleInvariance, PTL

(* A call that returns does so with the whole of its own reply.            *)
THEOREM OwnReply == Spec => []ReturnsOwnReply
<1>1. HandleInv => ReturnsOwnReply
  <2> SUFFICES ASSUME HandleInv, result.ok
               PROVE  ReturnsOwnReply
    BY DEF ReturnsOwnReply
  <2>1. Replied /\ StatusTaken /\ IndexTaken /\ answer.body = reply.body /\ result.answer = answer
    BY DEF HandleInv, ReplyInv
  <2>2. ~ Success(0) /\ ~ Success(100)
    BY DEF Success
  <2>3. Success(result.answer.status) => reply.status = result.answer.status
    BY <2>1, <2>2 DEF StatusTaken
  <2> QED
    BY <2>1, <2>3 DEF ReturnsOwnReply, Replied, RepliesTo, StatusTaken, IndexTaken
<1> QED
  BY <1>1, HandleInvariance, PTL

(* A PUT that returns success has left all of its data, once and in order. *)
THEOREM UploadWhole == Spec => []UploadExact
<1>1. HandleInv => UploadExact
  <2> SUFFICES ASSUME HandleInv, result.ok, Success(result.answer.status)
               PROVE  stored = [i \in 1 .. size |-> i]
    BY DEF UploadExact
  <2>1. Replied /\ StatusTaken /\ result.answer = answer /\ stored = Pieces(sent)
    BY DEF HandleInv, ReplyInv, UploadInv
  <2>2. ~ Success(0) /\ ~ Success(100) /\ ~ Success(404)
    BY DEF Success
  <2>3. reply.status = 200
    BY <2>1, <2>2 DEF StatusTaken, Replied, RepliesTo
  <2>4. sent = size
    BY <2>1, <2>3 DEF Replied, RepliesTo
  <2> QED
    BY <2>1, <2>4 DEF Pieces
<1> QED
  BY <1>1, HandleInvariance, PTL

(* What the constructor left in an option of TLS stays there.              *)
LEMMA TlsOption ==
  ASSUME HandleInv, Usable, NEW p \in TlsNames
  PROVE  LET d  == Defaults[p]
             d1 == IF "cert" \in config /\ "SSLCERT" = p THEN "cert" ELSE d
             d2 == IF "certType" \in config /\ "CAPATH" = p THEN "certType" ELSE d1
             d3 == IF "key" \in config /\ "SSLKEY" = p THEN "key" ELSE d2
             d4 == IF "keyType" \in config /\ "CAPATH" = p
                   THEN IF "certType" \in config THEN "certType" ELSE "empty" ELSE d3
             d5 == IF "caPath" \in config /\ "CAPATH" = p THEN "caPath" ELSE d4
             d6 == IF "caInfo" \in config /\ "CAINFO" = p THEN "caInfo" ELSE d5
             d7 == IF "keyPass" \in config /\ "KEYPASSWD" = p THEN "keyPass" ELSE d6
             d8 == IF "SSL_VERIFYHOST" = p THEN "verifyHost" \in config
                   ELSE IF "SSL_VERIFYPEER" = p THEN "verifyPeer" \in config ELSE d7
         IN  opt[p] = IF "verifyStatus" \in config /\ "SSL_VERIFYSTATUS" = p THEN TRUE ELSE d8
<1> DEFINE d  == Defaults[p]
           d1 == IF "cert" \in config /\ "SSLCERT" = p THEN "cert" ELSE d
           d2 == IF "certType" \in config /\ "CAPATH" = p THEN "certType" ELSE d1
           d3 == IF "key" \in config /\ "SSLKEY" = p THEN "key" ELSE d2
           d4 == IF "keyType" \in config /\ "CAPATH" = p
                 THEN IF "certType" \in config THEN "certType" ELSE "empty" ELSE d3
           d5 == IF "caPath" \in config /\ "CAPATH" = p THEN "caPath" ELSE d4
           d6 == IF "caInfo" \in config /\ "CAINFO" = p THEN "caInfo" ELSE d5
           d7 == IF "keyPass" \in config /\ "KEYPASSWD" = p THEN "keyPass" ELSE d6
           d8 == IF "SSL_VERIFYHOST" = p THEN "verifyHost" \in config
                 ELSE IF "SSL_VERIFYPEER" = p THEN "verifyPeer" \in config ELSE d7
           d9 == IF "verifyStatus" \in config /\ "SSL_VERIFYSTATUS" = p THEN TRUE ELSE d8
<1>1. p \notin Basics
  BY DEF TlsNames, Basics
<1>2. Leaves(Construction(config), Len(Construction(config)), p, d, d9)
  BY <1>1, ConstructionLeaves
<1> HIDE DEF d, d1, d2, d3, d4, d5, d6, d7, d8, d9
<1>3. Leaves(Construction(config), Len(Construction(config)), p, d, opt[p])
  BY DEF HandleInv, ConstructorInv, d
<1>4. Len(Construction(config)) \in Nat
  BY ConstructionSteps
<1>5. opt[p] = d9
  BY <1>2, <1>3, <1>4, LeavesOne
<1> QED
  BY <1>5 DEF d, d1, d2, d3, d4, d5, d6, d7, d8, d9

(***************************************************************************)
(* In any combination, a TLS parameter other than the two types is in the  *)
(* option it is for, as setupTls() set it, and verification is as asked.   *)
(***************************************************************************)
THEOREM TlsAsAsked == Spec => []TlsUndisturbed
<1>1. HandleInv => TlsUndisturbed
  <2> SUFFICES ASSUME HandleInv, Usable
               PROVE  TlsUndisturbed
    BY DEF TlsUndisturbed
  <2>1. "cert" \in config => opt["SSLCERT"] = "cert"
    BY TlsOption DEF TlsNames
  <2>2. "key" \in config => opt["SSLKEY"] = "key"
    BY TlsOption DEF TlsNames
  <2>3. "keyPass" \in config => opt["KEYPASSWD"] = "keyPass"
    BY TlsOption DEF TlsNames
  <2>4. "caPath" \in config => opt["CAPATH"] = "caPath"
    BY TlsOption DEF TlsNames
  <2>5. "caInfo" \in config => opt["CAINFO"] = "caInfo"
    BY TlsOption DEF TlsNames
  <2>6. opt["SSL_VERIFYPEER"] = ("verifyPeer" \in config)
    BY TlsOption DEF TlsNames
  <2>7. opt["SSL_VERIFYHOST"] = ("verifyHost" \in config)
    BY TlsOption DEF TlsNames
  <2>8. opt["SSL_VERIFYSTATUS"] = ("verifyStatus" \in config)
    <3>1. opt["SSL_VERIFYSTATUS"] = IF "verifyStatus" \in config THEN TRUE ELSE FALSE
      BY TlsOption, DefaultsTypes DEF TlsNames
    <3>2. CASE "verifyStatus" \in config
      BY <3>1, <3>2
    <3>3. CASE "verifyStatus" \notin config
      <4>1. opt["SSL_VERIFYSTATUS"] = FALSE
        BY <3>1, <3>3
      <4>2. ("verifyStatus" \in config) = FALSE
        BY <3>3
      <4> QED
        BY <4>1, <4>2, Zenon
    <3> QED
      BY <3>2, <3>3
  <2>9. ASSUME NEW f \in config \cap DOMAIN Documented, f \notin {"certType", "keyType"}
        PROVE  opt[Documented[f]] = f
    BY <2>1, <2>2, <2>3, <2>4, <2>5, <2>9 DEF Documented
  <2> QED
    BY <2>6, <2>7, <2>8, <2>9 DEF TlsUndisturbed
<1> QED
  BY <1>1, HandleInvariance, PTL
=============================================================================
