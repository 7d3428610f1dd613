----------------------------- MODULE Desk_proofs -----------------------------
(***************************************************************************)
(* Theorems about Desk, for every finite set of recipients, however many   *)
(* campaigns, mails, credentials, sign-ins and requests there are.         *)
(***************************************************************************)
EXTENDS Desk, FiniteSetTheorems, SequenceTheorems, TLAPS

-----------------------------------------------------------------------------
(* Rows of a table, and a set of rows put in an order. *)

LEMMA Rows ==
  ASSUME NEW S, NEW s \in Seq(S)
  PROVE  /\ Len(s) \in Nat /\ DOMAIN s = 1..Len(s) /\ DOMAIN s \subseteq Nat
         /\ \A k \in DOMAIN s : s[k] \in S
<1>1. Len(s) \in Nat /\ DOMAIN s = 1..Len(s)
  BY LenProperties
<1>2. \A k \in DOMAIN s : s[k] \in S
  BY <1>1, ElementOfSeq
<1> QED
  BY <1>1, <1>2

LEMMA SameLength ==
  ASSUME NEW S, NEW s \in Seq(S), NEW T, NEW t \in [DOMAIN s -> T]
  PROVE  t \in Seq(T)
<1>1. Len(s) \in Nat /\ DOMAIN s = 1..Len(s)
  BY Rows
<1> QED
  BY <1>1, SeqDef

LEMMA RowChanged ==
  ASSUME NEW S, NEW s \in Seq(S), NEW i \in DOMAIN s, NEW row \in S
  PROVE  /\ [s EXCEPT ![i] = row] \in Seq(S)
         /\ DOMAIN [s EXCEPT ![i] = row] = DOMAIN s
         /\ [s EXCEPT ![i] = row][i] = row
         /\ \A j \in DOMAIN s \ {i} : [s EXCEPT ![i] = row][j] = s[j]
BY Rows, ExceptSeq

LEMMA RowAdded ==
  ASSUME NEW S, NEW s \in Seq(S), NEW row \in S
  PROVE  /\ Append(s, row) \in Seq(S)
         /\ DOMAIN Append(s, row) = DOMAIN s \cup {Len(s) + 1}
         /\ Len(s) + 1 \notin DOMAIN s
         /\ Append(s, row)[Len(s) + 1] = row
         /\ \A j \in DOMAIN s : Append(s, row)[j] = s[j]
<1>1. Len(s) \in Nat /\ DOMAIN s = 1..Len(s)
  BY Rows
<1>2. /\ Append(s, row) \in Seq(S)
      /\ Len(Append(s, row)) = Len(s) + 1
      /\ \A i \in 1..Len(s) : Append(s, row)[i] = s[i]
      /\ Append(s, row)[Len(s) + 1] = row
  BY AppendProperties
<1>3. DOMAIN Append(s, row) = 1..(Len(s) + 1)
  BY <1>2, LenProperties
<1> QED
  BY <1>1, <1>2, <1>3

LEMMA RowsAdded ==
  ASSUME NEW S, NEW s \in Seq(S), NEW t \in Seq(S)
  PROVE  /\ s \o t \in Seq(S) /\ DOMAIN s \subseteq DOMAIN (s \o t)
         /\ \A k \in DOMAIN s : (s \o t)[k] = s[k]
         /\ \A k \in DOMAIN (s \o t) \ DOMAIN s :
              k - Len(s) \in DOMAIN t /\ (s \o t)[k] = t[k - Len(s)]
<1>1. /\ Len(s) \in Nat /\ DOMAIN s = 1..Len(s)
      /\ Len(t) \in Nat /\ DOMAIN t = 1..Len(t)
  BY Rows
<1>2. /\ s \o t \in Seq(S)
      /\ Len(s \o t) = Len(s) + Len(t)
      /\ \A i \in 1..(Len(s) + Len(t)) : (s \o t)[i] = IF i <= Len(s) THEN s[i] ELSE t[i - Len(s)]
  BY ConcatProperties
<1>3. DOMAIN (s \o t) = 1..(Len(s) + Len(t))
  BY <1>2, LenProperties
<1> QED
  BY <1>1, <1>2, <1>3

LEMMA InSomeOrder ==
  ASSUME NEW S, IsFiniteSet(S)
  PROVE  /\ SetToSeq(S) \in Seq(S)
         /\ \A i, j \in DOMAIN SetToSeq(S) : SetToSeq(S)[i] = SetToSeq(S)[j] => i = j
<1>1. Cardinality(S) \in Nat /\ ExistsBijection(1..Cardinality(S), S)
  BY FS_CardinalityType
<1>2. \E f \in [1..Cardinality(S) -> S] : IsInjective(f)
  BY <1>1 DEF ExistsBijection, Bijection, Injection
<1>3. SetToSeq(S) \in [1..Cardinality(S) -> S] /\ IsInjective(SetToSeq(S))
  BY <1>2 DEF SetToSeq
<1>4. SetToSeq(S) \in Seq(S)
  BY <1>1, <1>3, SeqDef
<1> QED
  BY <1>3, <1>4 DEF IsInjective

LEMMA FiniteImage ==
  ASSUME NEW R, IsFiniteSet(R), NEW g, DOMAIN g = R
  PROVE  IsFiniteSet({g[r] : r \in R})
<1> DEFINE T == {g[r] : r \in R}
           h == [r \in R |-> g[r]]
<1>1. h \in [R -> T] /\ \A t \in T : \E r \in R : h[r] = t
  OBVIOUS
<1>2. h \in Surjection(R, T)
  BY <1>1 DEF Surjection
<1> HIDE DEF h, T
<1>3. IsFiniteSet(T)
  BY <1>2, FS_Surjection
<1> QED
  BY <1>3 DEF T

-----------------------------------------------------------------------------
(* What a step may do to the campaigns, the mails and the waits. *)

(* Campaigns are never removed, and keep their kind; a pool is emptied on   *)
(* request only.                                                           *)
CampaignsMove ==
  /\ camps' \in Seq(Campaign) /\ DOMAIN camps \subseteq DOMAIN camps'
  /\ asked' \in [DOMAIN camps' -> SUBSET Nat]
  /\ \A c \in DOMAIN camps : camps'[c].kind = camps[c].kind
  /\ \A c \in DOMAIN camps : camps[c].pool # {} /\ camps'[c].pool = {} => asked'[c] = {}

(* A mail keeps its campaign and recipient, one that is gone stays gone,   *)
(* and a new one of a production campaign is for somebody who has none     *)
(* there.                                                                  *)
MailsMove ==
  /\ mails' \in Seq(Mail) /\ DOMAIN mails \subseteq DOMAIN mails'
  /\ \A k \in DOMAIN mails :
       /\ mails'[k].camp = mails[k].camp /\ mails'[k].to = mails[k].to
       /\ mails'[k].status \in Live => mails[k].status \in Live
  /\ \A k \in DOMAIN mails' : mails'[k].camp \in DOMAIN camps'
  /\ \A k \in DOMAIN mails' \ DOMAIN mails, l \in DOMAIN mails' :
       (/\ k # l /\ mails'[k].camp = mails'[l].camp /\ mails'[l].status \in Live
        /\ camps'[mails'[k].camp].kind = "production")
         => mails'[k].to # mails'[l].to

(* A mail in hand stays so until its wait is over; one that is taken was   *)
(* in nobody's hand.                                                       *)
HandsMove ==
  /\ \A k \in DOMAIN mails : mails[k].status = "SENDING" =>
       \/ mails'[k].status = "SENDING"
       \/ \E w \in waits \ waits' : w.for = "send" /\ w.mail = k
  /\ \A w \in waits' \ waits : w.for = "send" =>
       /\ w.mail \in DOMAIN mails
       /\ mails[w.mail].status # "SENDING" /\ mails'[w.mail].status = "SENDING"
       /\ \A v \in waits' \ waits : v = w

LEMMA OnceKept ==
  ASSUME TypeOK, OncePerRecipient, CampaignsMove, MailsMove
  PROVE  OncePerRecipient'
<1>1. \A k \in DOMAIN mails : mails[k].camp \in DOMAIN camps
  BY DEF TypeOK
<1>2. SUFFICES ASSUME NEW k \in DOMAIN mails', NEW l \in DOMAIN mails', k # l,
                      mails'[k].camp = mails'[l].camp, camps'[mails'[k].camp].kind = "production",
                      mails'[k].status \in Live, mails'[l].status \in Live
               PROVE  mails'[k].to # mails'[l].to
  BY DEF OncePerRecipient
<1>3. CASE k \in DOMAIN mails /\ l \in DOMAIN mails
  <2>1. camps[mails[k].camp].kind = "production"
    BY <1>1, <1>2, <1>3 DEF CampaignsMove, MailsMove
  <2> QED
    BY <1>2, <1>3, <2>1 DEF OncePerRecipient, MailsMove
<1>4. CASE k \notin DOMAIN mails
  BY <1>2, <1>4 DEF MailsMove
<1>5. CASE l \notin DOMAIN mails
  BY <1>2, <1>5 DEF MailsMove
<1> QED
  BY <1>3, <1>4, <1>5

LEMMA InHandKept ==
  ASSUME TypeOK, InHand, HandsMove
  PROVE  InHand'
<1>1. \A w \in waits : w.for = "send" => w.mail \in DOMAIN mails
  BY DEF TypeOK
<1>2. \A w \in waits' : w.for = "send" => mails'[w.mail].status = "SENDING"
  <2> SUFFICES ASSUME NEW w \in waits', w.for = "send"
               PROVE  mails'[w.mail].status = "SENDING"
    OBVIOUS
  <2>1. CASE w \in waits
    BY <1>1, <2>1 DEF InHand, HandsMove
  <2>2. CASE w \notin waits
    BY <2>2 DEF HandsMove
  <2> QED
    BY <2>1, <2>2
<1>3. \A w, v \in waits' : w.for = "send" /\ v.for = "send" /\ w.mail = v.mail => w = v
  BY DEF InHand, HandsMove
<1> QED
  BY <1>2, <1>3 DEF InHand

(* Mails that are there change, none is added *)
LEMMA MailsChanged ==
  ASSUME TypeOK, mails' \in [DOMAIN mails -> Mail], DOMAIN camps \subseteq DOMAIN camps',
         \A k \in DOMAIN mails :
           /\ mails'[k].camp = mails[k].camp /\ mails'[k].to = mails[k].to
           /\ mails'[k].status \in Live => mails[k].status \in Live
  PROVE  MailsMove
<1>1. mails' \in Seq(Mail)
  BY SameLength DEF TypeOK
<1>2. DOMAIN mails' = DOMAIN mails
  OBVIOUS
<1> QED
  BY <1>1, <1>2 DEF MailsMove, TypeOK

LEMMA MailChanged ==
  ASSUME TypeOK, DOMAIN camps \subseteq DOMAIN camps', NEW k \in DOMAIN mails, NEW row \in Mail,
         mails' = [mails EXCEPT ![k] = row],
         row.camp = mails[k].camp, row.to = mails[k].to, mails[k].status \in Live
  PROVE  /\ MailsMove /\ mails'[k] = row
         /\ \A l \in DOMAIN mails \ {k} : mails'[l] = mails[l]
<1>1. /\ mails' \in Seq(Mail) /\ DOMAIN mails' = DOMAIN mails
      /\ mails'[k] = row /\ \A l \in DOMAIN mails \ {k} : mails'[l] = mails[l]
  BY RowChanged DEF TypeOK
<1>2. mails' \in [DOMAIN mails -> Mail]
  BY <1>1, Rows
<1> QED
  BY <1>1, <1>2, MailsChanged

LEMMA MailsUnchanged ==
  ASSUME TypeOK, UNCHANGED mails, DOMAIN camps \subseteq DOMAIN camps'
  PROVE  MailsMove
<1>1. mails \in [DOMAIN mails -> Mail]
  BY Rows DEF TypeOK
<1> QED
  BY <1>1, MailsChanged

(* Drafts are added, for different people who have none in the campaign *)
LEMMA MailsAdded ==
  ASSUME TypeOK, camps' \in Seq(Campaign), DOMAIN camps \subseteq DOMAIN camps',
         NEW c \in DOMAIN camps',
         NEW R \in SUBSET Recipients, NEW sel \in [R -> BOOLEAN], template # None,
         \A k \in DOMAIN mails : mails[k].camp = c /\ mails[k].status \in Live => mails[k].to \notin R,
         mails' = mails \o SetToSeq({Draft(c, r, sel[r]) : r \in R})
  PROVE  /\ MailsMove
         /\ \A k \in DOMAIN mails : mails'[k] = mails[k]
<1> DEFINE S == {Draft(c, r, sel[r]) : r \in R}
           g == [r \in R |-> Draft(c, r, sel[r])]
           t == SetToSeq(S)
<1>1. IsFiniteSet(R)
  BY DeskAssumption, FS_Subset
<1>2. S = {g[r] : r \in R} /\ DOMAIN g = R
  OBVIOUS
<1>3. IsFiniteSet(S)
  <2> HIDE DEF S, g
  <2> QED
    BY <1>1, <1>2, FiniteImage
<1>4. c \in Nat /\ template \in Nat
  <2>1. DOMAIN camps' \subseteq Nat
    BY Rows
  <2> QED
    BY <2>1 DEF TypeOK
<1>5. \A m \in S : m \in Mail /\ m.camp = c /\ m.to \in R
  BY <1>4 DEF Draft, Mail, Live
<1>6. \A m, n \in S : m.to = n.to => m = n
  BY DEF Draft
<1> HIDE DEF S
<1>7. /\ t \in Seq(S)
      /\ \A i, j \in DOMAIN t : t[i] = t[j] => i = j
  BY <1>3, InSomeOrder
<1>8. t \in Seq(Mail) /\ \A i \in DOMAIN t : t[i] \in S
  <2>1. S \subseteq Mail
    BY <1>5
  <2> QED
    BY <1>7, <2>1, SeqMonotonic, Rows
<1> HIDE DEF t
<1>9. mails \in Seq(Mail) /\ mails' = mails \o t
  BY DEF S, t, TypeOK
<1>10. /\ mails' \in Seq(Mail) /\ DOMAIN mails \subseteq DOMAIN mails'
       /\ \A k \in DOMAIN mails : mails'[k] = mails[k]
       /\ \A k \in DOMAIN mails' \ DOMAIN mails :
            k - Len(mails) \in DOMAIN t /\ mails'[k] = t[k - Len(mails)]
  <2>1. /\ mails \o t \in Seq(Mail) /\ DOMAIN mails \subseteq DOMAIN (mails \o t)
        /\ \A k \in DOMAIN mails : (mails \o t)[k] = mails[k]
        /\ \A k \in DOMAIN (mails \o t) \ DOMAIN mails :
             k - Len(mails) \in DOMAIN t /\ (mails \o t)[k] = t[k - Len(mails)]
    BY <1>8, <1>9, RowsAdded
  <2> QED
    BY <1>9, <2>1
<1>11. \A k \in DOMAIN mails' : mails'[k].camp \in DOMAIN camps'
  <2> SUFFICES ASSUME NEW k \in DOMAIN mails'
               PROVE  mails'[k].camp \in DOMAIN camps'
    OBVIOUS
  <2>1. CASE k \in DOMAIN mails
    BY <1>10, <2>1 DEF TypeOK
  <2>2. CASE k \notin DOMAIN mails
    <3>1. mails'[k] \in S
      BY <1>8, <1>10, <2>2
    <3> QED
      BY <1>5, <3>1
  <2> QED
    BY <2>1, <2>2
<1>12. ASSUME NEW k \in DOMAIN mails' \ DOMAIN mails, NEW l \in DOMAIN mails',
              k # l, mails'[k].camp = mails'[l].camp, mails'[l].status \in Live
       PROVE  mails'[k].to # mails'[l].to
  <2>1. mails'[k] \in S /\ mails'[k].camp = c /\ mails'[k].to \in R
    BY <1>5, <1>8, <1>10
  <2>2. CASE l \in DOMAIN mails
    BY <1>10, <1>12, <2>1, <2>2
  <2>3. CASE l \notin DOMAIN mails
    <3>1. k - Len(mails) # l - Len(mails)
      <4>1. Len(mails) \in Nat /\ k \in Nat /\ l \in Nat
        BY <1>9, <1>10, Rows
      <4> QED
        BY <1>12, <4>1
    <3>2. mails'[k] # mails'[l] /\ mails'[l] \in S
      BY <1>7, <1>8, <1>10, <2>3, <3>1
    <3> QED
      BY <1>6, <2>1, <3>2
  <2> QED
    BY <2>2, <2>3
<1> QED
  BY <1>10, <1>11, <1>12 DEF MailsMove

-----------------------------------------------------------------------------
(* Campaigns *)

LEMMA CampaignsUnchanged ==
  ASSUME TypeOK, UNCHANGED <<camps, asked>>
  PROVE  CampaignsMove
BY DEF CampaignsMove, TypeOK

LEMMA HandsUnchanged ==
  ASSUME TypeOK,
         \A k \in DOMAIN mails : mails[k].status = "SENDING" => mails'[k].status = "SENDING",
         \A w \in waits' \ waits : w.for # "send"
  PROVE  HandsMove
BY DEF HandsMove

LEMMA CampaignAdded ==
  ASSUME TypeOK, NEW kind \in {"production", "test"},
         NEW pool \in SUBSET DOMAIN creds, NEW want \in SUBSET DOMAIN creds,
         camps' = NewCampaign(kind, pool), asked' = Append(asked, want)
  PROVE  /\ CampaignsMove
         /\ Len(camps) + 1 \in DOMAIN camps' /\ Len(camps) + 1 \notin DOMAIN camps
         /\ camps'[Len(camps) + 1].kind = kind
<1> DEFINE row == [kind |-> kind, status |-> "PAUSED", owned |-> TRUE, pool |-> pool]
<1>1. DOMAIN creds \subseteq Nat
  BY Rows DEF TypeOK
<1>2. row \in Campaign /\ row.kind = kind
  BY <1>1 DEF Campaign
<1>3. camps' = Append(camps, row) /\ camps \in Seq(Campaign)
  BY DEF NewCampaign, TypeOK
<1> HIDE DEF row
<1>4. /\ camps' \in Seq(Campaign)
      /\ DOMAIN camps' = DOMAIN camps \cup {Len(camps) + 1}
      /\ Len(camps) + 1 \notin DOMAIN camps
      /\ camps'[Len(camps) + 1] = row
      /\ \A c \in DOMAIN camps : camps'[c] = camps[c]
  BY <1>2, <1>3, RowAdded
<1>5. asked \in Seq(SUBSET Nat) /\ want \in SUBSET Nat /\ Len(asked) = Len(camps)
  <2>1. asked \in [DOMAIN camps -> SUBSET Nat]
    BY DEF TypeOK
  <2>2. asked \in Seq(SUBSET Nat)
    BY <1>3, <2>1, SameLength
  <2>3. Len(camps) \in Nat /\ Len(asked) \in Nat /\ 1..Len(asked) = 1..Len(camps)
    BY <1>3, <2>1, <2>2, Rows
  <2>4. Len(asked) = Len(camps)
    BY <2>3
  <2> QED
    BY <1>1, <2>2, <2>4
<1>6. /\ asked' \in Seq(SUBSET Nat)
      /\ DOMAIN asked' = DOMAIN asked \cup {Len(asked) + 1}
  BY <1>5, RowAdded
<1>7. DOMAIN asked' = DOMAIN camps'
  BY <1>4, <1>5, <1>6 DEF TypeOK
<1>8. asked' \in [DOMAIN camps' -> SUBSET Nat]
  <2>1. asked' \in [1..Len(asked') -> SUBSET Nat] /\ DOMAIN asked' = 1..Len(asked')
    BY <1>6, LenProperties
  <2> QED
    BY <1>7, <2>1
<1> QED
  BY <1>2, <1>4, <1>8 DEF CampaignsMove

LEMMA CampaignChanged ==
  ASSUME TypeOK, NEW c \in DOMAIN camps, NEW row \in Campaign, row.kind = camps[c].kind,
         camps' = [camps EXCEPT ![c] = row],
         \/ row.pool = camps[c].pool /\ asked' = asked
         \/ asked' = [asked EXCEPT ![c] = row.pool]
  PROVE  CampaignsMove
<1>1. /\ camps' \in Seq(Campaign) /\ DOMAIN camps' = DOMAIN camps
      /\ camps'[c] = row /\ \A d \in DOMAIN camps \ {c} : camps'[d] = camps[d]
  BY RowChanged DEF TypeOK
<1>2. row.pool \in SUBSET Nat
  BY DEF Campaign
<1>3. asked' \in [DOMAIN camps -> SUBSET Nat]
  BY <1>2 DEF TypeOK
<1>4. \A d \in DOMAIN camps : camps[d].pool # {} /\ camps'[d].pool = {} => asked'[d] = {}
  BY <1>1, <1>2 DEF TypeOK
<1> QED
  BY <1>1, <1>3, <1>4 DEF CampaignsMove

LEMMA StatusChanged ==
  ASSUME TypeOK, NEW c \in DOMAIN camps,
         NEW s \in {"PAUSED", "RUNNING", "CANCELLED", "COMPLETED"},
         camps' = [camps EXCEPT ![c].status = s], asked' = asked
  PROVE  CampaignsMove
<1> DEFINE row == [camps[c] EXCEPT !.status = s]
<1>1. camps[c] \in Campaign
  BY Rows DEF TypeOK
<1>2. row \in Campaign /\ row.kind = camps[c].kind /\ row.pool = camps[c].pool
  BY <1>1 DEF Campaign
<1>3. camps' = [camps EXCEPT ![c] = row]
  OBVIOUS
<1> HIDE DEF row
<1> QED
  BY <1>2, <1>3, CampaignChanged

LEMMA CampaignSteps ==
  ASSUME TypeOK, NEW c \in DOMAIN camps,
         \/ \E pool \in SUBSET DOMAIN creds : SetPool(c, pool)
         \/ \E s \in {"PAUSED", "RUNNING", "CANCELLED", "COMPLETED"} : SetStatus(c, s)
         \/ StartCampaign(c)
  PROVE  CampaignsMove /\ UNCHANGED <<mails, waits>>
<1>1. ASSUME NEW pool \in SUBSET DOMAIN creds, SetPool(c, pool)
      PROVE  CampaignsMove
  <2> DEFINE row == [camps[c] EXCEPT !.pool = pool]
  <2>1. camps[c] \in Campaign /\ DOMAIN creds \subseteq Nat
    BY Rows DEF TypeOK
  <2>2. row \in Campaign /\ row.kind = camps[c].kind /\ row.pool = pool
    BY <2>1 DEF Campaign
  <2>3. camps' = [camps EXCEPT ![c] = row] /\ asked' = [asked EXCEPT ![c] = pool]
    BY <1>1 DEF SetPool
  <2> HIDE DEF row
  <2> QED
    BY <2>2, <2>3, CampaignChanged
<1>2. ASSUME NEW s \in {"PAUSED", "RUNNING", "CANCELLED", "COMPLETED"}, SetStatus(c, s)
      PROVE  CampaignsMove
  BY <1>2, StatusChanged DEF SetStatus
<1>3. ASSUME StartCampaign(c)
      PROVE  CampaignsMove
  BY <1>3, StatusChanged DEF StartCampaign
<1>4. UNCHANGED <<mails, waits>>
  BY DEF SetPool, SetStatus, StartCampaign, credVars, keyVars
<1> QED
  BY <1>1, <1>2, <1>3, <1>4

(* The leads a rendering draws up mails for *)
LEMMA RenderedRows ==
  ASSUME TypeOK, camps' \in Seq(Campaign), DOMAIN camps \subseteq DOMAIN camps',
         NEW c \in DOMAIN camps', NEW leads \in SUBSET Recipients, NEW exclude, template # None,
         \A k \in DOMAIN mails : mails[k].camp = c /\ mails[k].status \in Live => mails[k].to \in exclude,
         mails' = mails \o Rendered(c, leads, exclude)
  PROVE  /\ MailsMove
         /\ \A k \in DOMAIN mails : mails'[k] = mails[k]
<1> DEFINE R == {r \in leads : ~Blacklisted(r) /\ r \notin exclude}
           sel == [r \in R |-> r \notin Incomplete]
<1>1. R \in SUBSET Recipients /\ sel \in [R -> BOOLEAN]
  OBVIOUS
<1>2. Rendered(c, leads, exclude) = SetToSeq({Draft(c, r, sel[r]) : r \in R})
  <2>1. {Draft(c, r, r \notin Incomplete) : r \in R} = {Draft(c, r, sel[r]) : r \in R}
    OBVIOUS
  <2> QED
    BY <2>1 DEF Rendered
<1>3. mails' = mails \o SetToSeq({Draft(c, r, sel[r]) : r \in R})
  BY <1>2
<1>4. \A k \in DOMAIN mails : mails[k].camp = c /\ mails[k].status \in Live => mails[k].to \notin R
  OBVIOUS
<1> HIDE DEF R, sel
<1> QED
  BY <1>1, <1>3, <1>4, MailsAdded

LEMMA CreateStep ==
  ASSUME TypeOK, NEW leads \in SUBSET Recipients, NEW pool \in SUBSET DOMAIN creds,
         CreateCampaign(leads, pool)
  PROVE  CampaignsMove /\ MailsMove /\ HandsMove /\ UNCHANGED waits
<1> DEFINE c == Len(camps) + 1
           p == IF pool \subseteq Existing THEN pool ELSE {}
<1>1. p \in SUBSET DOMAIN creds
  OBVIOUS
<1>2. /\ camps' = NewCampaign("production", p) /\ asked' = Append(asked, pool)
      /\ template # None /\ UNCHANGED waits
      /\ mails' = mails \o Rendered(c, leads, {})
  BY DEF CreateCampaign
<1> HIDE DEF p
<1>3. CampaignsMove /\ c \in DOMAIN camps' /\ c \notin DOMAIN camps
  BY <1>1, <1>2, CampaignAdded
<1>4. camps' \in Seq(Campaign) /\ DOMAIN camps \subseteq DOMAIN camps'
  BY <1>3 DEF CampaignsMove
<1>5. \A k \in DOMAIN mails : mails[k].camp # c
  BY <1>3 DEF TypeOK
<1> HIDE DEF c
<1>6. MailsMove /\ \A k \in DOMAIN mails : mails'[k] = mails[k]
  <2>1. mails' = mails \o Rendered(c, leads, {}) /\ c \in DOMAIN camps' /\ template # None
    BY <1>2, <1>3
  <2> QED
    BY <1>4, <1>5, <2>1, RenderedRows
<1>7. HandsMove
  BY <1>2, <1>6, HandsUnchanged
<1> QED
  BY <1>2, <1>3, <1>6, <1>7

LEMMA CreateTestStep ==
  ASSUME TypeOK, NEW n \in Nat, NEW dummies \in [1..n -> Recipients], NEW pool \in SUBSET DOMAIN creds,
         CreateTest(dummies, pool)
  PROVE  CampaignsMove /\ MailsMove /\ HandsMove /\ UNCHANGED waits
<1> DEFINE c == Len(camps) + 1
           t == [i \in 1..n |-> Draft(c, dummies[i], TRUE)]
<1>1. /\ camps' = NewCampaign("test", pool) /\ asked' = Append(asked, pool)
      /\ template # None /\ UNCHANGED waits
      /\ mails' = mails \o t
  BY DEF CreateTest
<1>2. CampaignsMove /\ c \in DOMAIN camps' /\ c \notin DOMAIN camps /\ camps'[c].kind = "test"
  BY <1>1, CampaignAdded
<1>3. camps' \in Seq(Campaign) /\ DOMAIN camps \subseteq DOMAIN camps'
  BY <1>2 DEF CampaignsMove
<1>4. c \in Nat /\ template \in Nat
  <2>1. DOMAIN camps' \subseteq Nat
    BY <1>3, Rows
  <2> QED
    BY <1>1, <1>2, <2>1 DEF TypeOK
<1>5. \A i \in 1..n : t[i] \in Mail /\ t[i].camp = c
  BY <1>4 DEF Draft, Mail, Live
<1> HIDE DEF c, t
<1>6. t \in Seq(Mail) /\ DOMAIN t = 1..n
  <2>1. DOMAIN t = 1..n /\ t = [i \in 1..n |-> t[i]]
    BY DEF t
  <2>2. t \in [1..n -> Mail]
    BY <1>5, <2>1
  <2> QED
    BY <2>1, <2>2, SeqDef
<1>7. /\ mails' \in Seq(Mail) /\ DOMAIN mails \subseteq DOMAIN mails'
      /\ \A k \in DOMAIN mails : mails'[k] = mails[k]
      /\ \A k \in DOMAIN mails' \ DOMAIN mails : mails'[k].camp = c
  <2>1. /\ mails \o t \in Seq(Mail) /\ DOMAIN mails \subseteq DOMAIN (mails \o t)
        /\ \A k \in DOMAIN mails : (mails \o t)[k] = mails[k]
        /\ \A k \in DOMAIN (mails \o t) \ DOMAIN mails :
             k - Len(mails) \in DOMAIN t /\ (mails \o t)[k] = t[k - Len(mails)]
    BY <1>6, RowsAdded DEF TypeOK
  <2> QED
    BY <1>1, <1>5, <1>6, <2>1
<1>8. MailsMove
  <2>1. \A k \in DOMAIN mails' : mails'[k].camp \in DOMAIN camps'
    BY <1>2, <1>3, <1>7 DEF TypeOK
  <2>2. \A k \in DOMAIN mails' \ DOMAIN mails : camps'[mails'[k].camp].kind # "production"
    BY <1>2, <1>7
  <2> QED
    BY <1>7, <2>1, <2>2 DEF MailsMove
<1>9. HandsMove
  BY <1>1, <1>7, HandsUnchanged
<1> QED
  BY <1>1, <1>2, <1>8, <1>9

LEMMA AddStep ==
  ASSUME TypeOK, NEW c \in DOMAIN camps, NEW leads \in SUBSET Recipients, AddEmails(c, leads)
  PROVE  CampaignsMove /\ MailsMove /\ HandsMove /\ UNCHANGED waits
<1>1. /\ template # None /\ UNCHANGED <<camps, asked, waits>>
      /\ mails' = mails \o Rendered(c, leads, InCampaign(c))
  BY DEF AddEmails
<1>2. CampaignsMove /\ camps' \in Seq(Campaign)
  BY <1>1, CampaignsUnchanged DEF CampaignsMove
<1>3. \A k \in DOMAIN mails :
        mails[k].camp = c /\ mails[k].status \in Live => mails[k].to \in InCampaign(c)
  BY DEF InCampaign, MailsOf
<1>4. MailsMove /\ \A k \in DOMAIN mails : mails'[k] = mails[k]
  BY <1>1, <1>2, <1>3, RenderedRows
<1>5. HandsMove
  BY <1>1, <1>4, HandsUnchanged
<1> QED
  BY <1>1, <1>2, <1>4, <1>5

-----------------------------------------------------------------------------
(* Mails *)

(* All mails of a set are updated by the page or by the dispatcher *)
LEMMA MailsUpdated ==
  ASSUME TypeOK, UNCHANGED <<camps, asked, waits>>, NEW K \in SUBSET DOMAIN mails,
         \A k \in K : mails[k].status \in {"DRAFT", "QUEUED"},
         mails' \in [DOMAIN mails -> Mail],
         \A k \in K : mails'[k].camp = mails[k].camp /\ mails'[k].to = mails[k].to,
         \A k \in DOMAIN mails \ K : mails'[k] = mails[k]
  PROVE  CampaignsMove /\ MailsMove /\ HandsMove
<1>1. CampaignsMove
  BY CampaignsUnchanged
<1>2. \A k \in DOMAIN mails :
        /\ mails'[k].camp = mails[k].camp /\ mails'[k].to = mails[k].to
        /\ mails'[k].status \in Live => mails[k].status \in Live
  BY DEF Live
<1>3. MailsMove
  BY <1>2, MailsChanged
<1>4. \A k \in DOMAIN mails : mails[k].status = "SENDING" => mails'[k].status = "SENDING"
  OBVIOUS
<1>5. HandsMove
  BY <1>4, HandsUnchanged
<1> QED
  BY <1>1, <1>3, <1>5

LEMMA SelectAllStep ==
  ASSUME TypeOK, NEW c \in DOMAIN camps, NEW sel \in BOOLEAN, SelectAll(c, sel)
  PROVE  CampaignsMove /\ MailsMove /\ HandsMove /\ UNCHANGED waits
<1> DEFINE K == Selectable(c, sel)
<1>1. UNCHANGED <<camps, asked, waits>>
  BY DEF SelectAll
<1>2. mails' = [k \in DOMAIN mails |-> IF k \in K THEN WithSelection(mails[k], sel) ELSE mails[k]]
  BY DEF SelectAll, Updated
<1>3. K \in SUBSET DOMAIN mails /\ \A k \in K : mails[k].status \in {"DRAFT", "QUEUED"}
  BY DEF Selectable, InStatus, MailsOf
<1>4. \A k \in DOMAIN mails : mails[k] \in Mail
  BY Rows DEF TypeOK
<1>5. \A k \in DOMAIN mails :
        /\ WithSelection(mails[k], sel) \in Mail
        /\ WithSelection(mails[k], sel).camp = mails[k].camp
        /\ WithSelection(mails[k], sel).to = mails[k].to
  BY <1>4 DEF WithSelection, Mail, Live
<1> HIDE DEF K
<1>6. mails' \in [DOMAIN mails -> Mail]
  BY <1>2, <1>4, <1>5
<1>7. /\ \A k \in K : mails'[k].camp = mails[k].camp /\ mails'[k].to = mails[k].to
      /\ \A k \in DOMAIN mails \ K : mails'[k] = mails[k]
  BY <1>2, <1>3, <1>5
<1> QED
  BY <1>1, <1>3, <1>6, <1>7, MailsUpdated

LEMMA StatusOfMails ==
  ASSUME TypeOK, UNCHANGED <<camps, asked, waits>>, NEW K \in SUBSET DOMAIN mails,
         \A k \in K : mails[k].status \in {"DRAFT", "QUEUED"}, NEW s \in Live,
         mails' = [k \in DOMAIN mails |-> IF k \in K THEN [mails[k] EXCEPT !.status = s] ELSE mails[k]]
  PROVE  CampaignsMove /\ MailsMove /\ HandsMove
<1>1. \A k \in DOMAIN mails : mails[k] \in Mail
  BY Rows DEF TypeOK
<1>2. \A k \in DOMAIN mails :
        /\ [mails[k] EXCEPT !.status = s] \in Mail
        /\ [mails[k] EXCEPT !.status = s].camp = mails[k].camp
        /\ [mails[k] EXCEPT !.status = s].to = mails[k].to
  BY <1>1 DEF Mail
<1>3. mails' \in [DOMAIN mails -> Mail]
  BY <1>1, <1>2
<1>4. /\ \A k \in K : mails'[k].camp = mails[k].camp /\ mails'[k].to = mails[k].to
      /\ \A k \in DOMAIN mails \ K : mails'[k] = mails[k]
  BY <1>2
<1> QED
  BY <1>3, <1>4, MailsUpdated

LEMMA QueueStep ==
  ASSUME TypeOK, NEW c \in DOMAIN camps, QueueMails(c)
  PROVE  CampaignsMove /\ MailsMove /\ HandsMove /\ UNCHANGED waits
<1> DEFINE K == Selected(c)
<1>1. UNCHANGED <<camps, asked, waits>>
  BY DEF QueueMails
<1>2. mails' = [k \in DOMAIN mails |-> IF k \in K THEN [mails[k] EXCEPT !.status = "QUEUED"] ELSE mails[k]]
  BY DEF QueueMails, Updated
<1>3. K \in SUBSET DOMAIN mails /\ \A k \in K : mails[k].status \in {"DRAFT", "QUEUED"}
  BY DEF Selected, InStatus, MailsOf
<1>4. "QUEUED" \in Live
  BY DEF Live
<1> HIDE DEF K
<1> QED
  BY <1>1, <1>2, <1>3, <1>4, StatusOfMails

LEMMA EndStep ==
  ASSUME TypeOK, NEW c \in DOMAIN camps, EndCampaign(c)
  PROVE  CampaignsMove /\ MailsMove /\ HandsMove /\ UNCHANGED waits
<1>1. UNCHANGED <<asked, waits>>
  BY DEF EndCampaign
<1>2. \/ \E s \in {"PAUSED", "COMPLETED"} : Ended(c, s)
      \/ /\ mails' = [k \in DOMAIN mails |-> IF k \in InStatus(c, {"QUEUED"})
                                             THEN [mails[k] EXCEPT !.status = "FAILED"] ELSE mails[k]]
         /\ UNCHANGED camps
  BY DEF EndCampaign, Updated
<1>3. ASSUME NEW s \in {"PAUSED", "COMPLETED"}, Ended(c, s)
      PROVE  CampaignsMove /\ MailsMove /\ HandsMove
  <2>1. CampaignsMove /\ UNCHANGED mails
    BY <1>1, <1>3, StatusChanged DEF Ended
  <2>2. MailsMove
    BY <2>1, MailsUnchanged DEF CampaignsMove
  <2>3. HandsMove
    BY <1>1, <2>1, HandsUnchanged
  <2> QED
    BY <2>1, <2>2, <2>3
<1>4. ASSUME mails' = [k \in DOMAIN mails |-> IF k \in InStatus(c, {"QUEUED"})
                                              THEN [mails[k] EXCEPT !.status = "FAILED"] ELSE mails[k]],
             UNCHANGED camps
      PROVE  CampaignsMove /\ MailsMove /\ HandsMove
  <2> DEFINE K == InStatus(c, {"QUEUED"})
  <2>1. K \in SUBSET DOMAIN mails /\ \A k \in K : mails[k].status \in {"DRAFT", "QUEUED"}
    BY DEF InStatus, MailsOf
  <2>2. "FAILED" \in Live
    BY DEF Live
  <2>3. mails' = [k \in DOMAIN mails |-> IF k \in K THEN [mails[k] EXCEPT !.status = "FAILED"] ELSE mails[k]]
    BY <1>4
  <2> HIDE DEF K
  <2> QED
    BY <1>1, <1>4, <2>1, <2>2, <2>3, StatusOfMails
<1> QED
  BY <1>1, <1>2, <1>3, <1>4

(* One mail that is not in hand is changed *)
LEMMA OneMailStep ==
  ASSUME TypeOK, NEW k \in DOMAIN mails,
         \/ EditMail(k)
         \/ \E sel \in BOOLEAN : SelectMail(k, sel)
         \/ DeleteMail(k)
  PROVE  CampaignsMove /\ MailsMove /\ HandsMove /\ UNCHANGED waits
<1>1. mails[k] \in Mail
  BY Rows DEF TypeOK
<1>2. UNCHANGED <<camps, asked, waits>> /\ mails[k].status \in Live
  BY DEF EditMail, SelectMail, DeleteMail, Editable
<1>3. \E row \in Mail :
        /\ mails' = [mails EXCEPT ![k] = row]
        /\ row.camp = mails[k].camp /\ row.to = mails[k].to
        /\ mails[k].status = "SENDING" => row.status = "SENDING"
  <2>1. CASE EditMail(k)
    <3> DEFINE row == [mails[k] EXCEPT !.text = 0]
    <3>1. row \in Mail /\ row.camp = mails[k].camp /\ row.to = mails[k].to /\ row.status = mails[k].status
      BY <1>1 DEF Mail
    <3>2. mails' = [mails EXCEPT ![k] = row]
      BY <2>1 DEF EditMail
    <3> QED
      BY <3>1, <3>2
  <2>2. ASSUME NEW sel \in BOOLEAN, SelectMail(k, sel)
        PROVE  <1>3!:
    <3> DEFINE row == WithSelection(mails[k], sel)
    <3>1. row \in Mail /\ row.camp = mails[k].camp /\ row.to = mails[k].to
      BY <1>1 DEF WithSelection, Mail, Live
    <3>2. mails' = [mails EXCEPT ![k] = row] /\ mails[k].status # "SENDING"
      BY <2>2 DEF SelectMail
    <3> QED
      BY <3>1, <3>2
  <2>3. CASE DeleteMail(k)
    <3> DEFINE row == [mails[k] EXCEPT !.status = "gone"]
    <3>1. row \in Mail /\ row.camp = mails[k].camp /\ row.to = mails[k].to
      BY <1>1 DEF Mail
    <3>2. mails' = [mails EXCEPT ![k] = row] /\ mails[k].status # "SENDING"
      BY <2>3 DEF DeleteMail
    <3> QED
      BY <3>1, <3>2
  <2> QED
    BY <2>1, <2>2, <2>3
<1>4. PICK row \in Mail :
        /\ mails' = [mails EXCEPT ![k] = row]
        /\ row.camp = mails[k].camp /\ row.to = mails[k].to
        /\ mails[k].status = "SENDING" => row.status = "SENDING"
  BY <1>3
<1>5. /\ MailsMove /\ mails'[k] = row
      /\ \A l \in DOMAIN mails \ {k} : mails'[l] = mails[l]
  BY <1>2, <1>4, MailChanged
<1>6. HandsMove
  BY <1>2, <1>4, <1>5, HandsUnchanged
<1> QED
  BY <1>2, <1>5, <1>6, CampaignsUnchanged

LEMMA ClaimStep ==
  ASSUME TypeOK, NEW k \in DOMAIN mails, NEW i \in Existing, Claim(k, i)
  PROVE  CampaignsMove /\ MailsMove /\ HandsMove
<1> DEFINE row == [mails[k] EXCEPT !.status = "SENDING", !.sent = mails[k].text]
<1>1. mails[k] \in Mail
  BY Rows DEF TypeOK
<1>2. UNCHANGED <<camps, asked>> /\ mails[k].status = "QUEUED"
  BY DEF Claim
<1>3. row \in Mail /\ row.camp = mails[k].camp /\ row.to = mails[k].to /\ row.status = "SENDING"
  BY <1>1 DEF Mail, Live
<1>4. mails' = [mails EXCEPT ![k] = row] /\ waits' = waits \cup {Talk(i, k)}
  BY DEF Claim
<1>5. mails[k].status \in Live
  BY <1>2 DEF Live
<1> HIDE DEF row
<1>6. /\ MailsMove /\ mails'[k] = row
      /\ \A l \in DOMAIN mails \ {k} : mails'[l] = mails[l]
  BY <1>2, <1>3, <1>4, <1>5, MailChanged
<1>7. Talk(i, k).mail = k
  BY DEF Talk
<1>8. HandsMove
  BY <1>2, <1>3, <1>4, <1>6, <1>7 DEF HandsMove
<1> QED
  BY <1>2, <1>6, <1>8, CampaignsUnchanged

(* The server has answered: the mail that was in hand is sent, failed or   *)
(* queued again, and nobody else's hand is in it.                          *)
LEMMA AnswerStep ==
  ASSUME TypeOK, InHand, NEW w \in waits, NEW refreshed \in BOOLEAN,
         \/ TalkAccepted(w, refreshed) \/ TalkRefused(w, refreshed) \/ TalkPostponed(w, refreshed)
         \/ \E hard \in BOOLEAN : TalkBounced(w, refreshed, hard)
  PROVE  CampaignsMove /\ MailsMove /\ HandsMove
<1>1. UNCHANGED <<camps, asked>> /\ waits' = waits \ {w}
  BY DEF TalkAccepted, TalkRefused, TalkPostponed, TalkBounced
<1>2. CampaignsMove
  BY <1>1, CampaignsUnchanged
<1>3. w \in Wait /\ w.cred \in Nat
  BY DEF TypeOK, Wait
<1>4. CASE w.for = "test"
  <2>1. UNCHANGED mails
    BY <1>4 DEF TalkAccepted, TalkRefused, TalkPostponed, TalkBounced
  <2>2. MailsMove
    BY <1>1, <2>1, MailsUnchanged
  <2>3. HandsMove
    BY <1>1, <2>1, HandsUnchanged
  <2> QED
    BY <1>2, <2>2, <2>3
<1>5. CASE w.for # "test"
  <2>1. w.for = "send"
    BY <1>3, <1>5 DEF TalkAccepted, TalkRefused, TalkPostponed, TalkBounced, Wait
  <2> DEFINE k == w.mail
  <2>2. k \in DOMAIN mails /\ mails[k].status = "SENDING" /\ mails[k] \in Mail
    BY <2>1, Rows DEF TypeOK, InHand
  <2>3. \E row \in Mail :
          /\ mails' = [mails EXCEPT ![k] = row]
          /\ row.camp = mails[k].camp /\ row.to = mails[k].to
    <3>1. CASE TalkAccepted(w, refreshed)
      <4> DEFINE row == [mails[k] EXCEPT !.status = "SENT", !.via = w.cred]
      <4>1. row \in Mail /\ row.camp = mails[k].camp /\ row.to = mails[k].to
        BY <1>3, <2>2 DEF Mail, Live
      <4>2. mails' = [mails EXCEPT ![k] = row]
        BY <1>5, <3>1 DEF TalkAccepted
      <4> QED
        BY <4>1, <4>2
    <3>2. CASE TalkRefused(w, refreshed) \/ TalkPostponed(w, refreshed)
      <4> DEFINE row == [mails[k] EXCEPT !.status = "QUEUED", !.sent = None]
      <4>1. row \in Mail /\ row.camp = mails[k].camp /\ row.to = mails[k].to
        BY <2>2 DEF Mail, Live
      <4>2. mails' = [mails EXCEPT ![k] = row]
        BY <1>5, <3>2 DEF TalkRefused, TalkPostponed
      <4> QED
        BY <4>1, <4>2
    <3>3. CASE \E hard \in BOOLEAN : TalkBounced(w, refreshed, hard)
      <4> DEFINE row == [mails[k] EXCEPT !.status = "FAILED", !.via = w.cred]
      <4>1. row \in Mail /\ row.camp = mails[k].camp /\ row.to = mails[k].to
        BY <1>3, <2>2 DEF Mail, Live
      <4>2. mails' = [mails EXCEPT ![k] = row]
        BY <3>3 DEF TalkBounced
      <4> QED
        BY <4>1, <4>2
    <3> QED
      BY <3>1, <3>2, <3>3
  <2>4. PICK row \in Mail :
          /\ mails' = [mails EXCEPT ![k] = row]
          /\ row.camp = mails[k].camp /\ row.to = mails[k].to
    BY <2>3
  <2>5. mails[k].status \in Live
    BY <2>2 DEF Live
  <2>6. MailsMove /\ \A l \in DOMAIN mails \ {k} : mails'[l] = mails[l]
    BY <1>1, <2>2, <2>4, <2>5, MailChanged
  <2>7. HandsMove
    BY <1>1, <2>1, <2>6 DEF HandsMove
  <2> QED
    BY <1>2, <2>6, <2>7
<1> QED
  BY <1>4, <1>5

(* The other handlers leave campaigns and mails alone; what they wait for  *)
(* is no answer to a mail.                                                 *)
LEMMA OtherSteps ==
  ASSUME TypeOK, UNCHANGED <<camps, asked, mails>>, \A w \in waits' \ waits : w.for # "send"
  PROVE  CampaignsMove /\ MailsMove /\ HandsMove
BY CampaignsUnchanged, MailsUnchanged, HandsUnchanged

LEMMA Step ==
  ASSUME TypeOK, InHand, [Next]_vars
  PROVE  CampaignsMove /\ MailsMove /\ HandsMove
<1>1. CASE UNCHANGED vars
  BY <1>1, OtherSteps DEF vars, mailVars
<1>2. CASE UpdateTemplate \/ DeleteTemplate \/ DeployBothKeys \/ BeginRotation \/ CommitRotation
  BY <1>2, OtherSteps
  DEF UpdateTemplate, DeleteTemplate, DeployBothKeys, BeginRotation, CommitRotation, mailVars
<1>3. CASE \E r \in Recipients : Block(r) \/ Unblock(r)
  BY <1>3, OtherSteps DEF Block, Unblock
<1>4. CASE NewCampaignStep
  BY <1>4, CreateStep, CreateTestStep DEF NewCampaignStep
<1>5. CASE CampaignStep
  <2> SUFFICES ASSUME NEW c \in DOMAIN camps, CampaignStep!(c)
               PROVE  CampaignsMove /\ MailsMove /\ HandsMove
    BY <1>5 DEF CampaignStep
  <2>1. CASE \E leads \in SUBSET Recipients : AddEmails(c, leads)
    BY <2>1, AddStep
  <2>2. CASE \/ \E pool \in SUBSET DOMAIN creds : SetPool(c, pool)
             \/ \E s \in {"PAUSED", "RUNNING", "CANCELLED", "COMPLETED"} : SetStatus(c, s)
             \/ StartCampaign(c)
    <3>1. CampaignsMove /\ UNCHANGED <<mails, waits>>
      BY <2>2, CampaignSteps
    <3>2. MailsMove
      BY <3>1, MailsUnchanged DEF CampaignsMove
    <3>3. HandsMove
      BY <3>1, HandsUnchanged
    <3> QED
      BY <3>1, <3>2, <3>3
  <2>3. CASE \E sel \in BOOLEAN : SelectAll(c, sel)
    BY <2>3, SelectAllStep
  <2>4. CASE QueueMails(c)
    BY <2>4, QueueStep
  <2>5. CASE EndCampaign(c)
    BY <2>5, EndStep
  <2> QED
    BY <2>1, <2>2, <2>3, <2>4, <2>5
<1>6. CASE MailStep
  BY <1>6, OneMailStep, ClaimStep DEF MailStep
<1>7. CASE CredentialStep
  <2> SUFFICES ASSUME NEW i \in Existing, CredentialStep!(i)
               PROVE  CampaignsMove /\ MailsMove /\ HandsMove
    BY <1>7 DEF CredentialStep
  <2>1. CASE TestCredential(i)
    <3>1. Talk(i, None).for = "test"
      BY DEF Talk
    <3>2. UNCHANGED <<camps, asked, mails>> /\ waits' = waits \cup {Talk(i, None)}
      BY <2>1 DEF TestCredential, mailVars
    <3> QED
      BY <3>1, <3>2, OtherSteps
  <2>2. CASE ~TestCredential(i)
    <3>1. UNCHANGED <<camps, asked, mails, waits>>
      BY <2>2 DEF UpdateCredential, DeleteCredential, CooldownPasses, StartOAuth, mailVars
    <3> QED
      BY <3>1, OtherSteps
  <2> QED
    BY <2>1, <2>2
<1>8. CASE WaitStep
  <2> SUFFICES ASSUME NEW w \in waits, WaitStep!(w)
               PROVE  CampaignsMove /\ MailsMove /\ HandsMove
    BY <1>8 DEF WaitStep
  <2>1. CASE \E granted \in BOOLEAN : EndCallback(w, granted)
    BY <2>1, OtherSteps DEF EndCallback, mailVars
  <2>2. CASE \E refreshed \in BOOLEAN :
               \/ TalkAccepted(w, refreshed) \/ TalkRefused(w, refreshed) \/ TalkPostponed(w, refreshed)
               \/ \E hard \in BOOLEAN : TalkBounced(w, refreshed, hard)
    BY <2>2, AnswerStep
  <2> QED
    BY <2>1, <2>2
<1>9. CASE \E p \in Providers : CreateCredential(p)
  BY <1>9, OtherSteps DEF CreateCredential, mailVars
<1>10. CASE \E f \in 1..MaxFlows : Callback(f)
  <2> SUFFICES ASSUME NEW f \in 1..MaxFlows, Callback(f)
               PROVE  CampaignsMove /\ MailsMove /\ HandsMove
    BY <1>10
  <2>1. Exchange(f).for = "callback"
    BY DEF Exchange
  <2>2. UNCHANGED <<camps, asked, mails>> /\ waits' = waits \cup {Exchange(f)}
    BY DEF Callback, mailVars
  <2> QED
    BY <2>1, <2>2, OtherSteps
<1> QED
  BY <1>1, <1>2, <1>3, <1>4, <1>5, <1>6, <1>7, <1>8, <1>9, <1>10 DEF Next

-----------------------------------------------------------------------------
(* What a step may do to the credentials: one is added, one's row changes, *)
(* all rows change.  None ever leaves the sequence.                        *)

Table == Seq(Credential \cup {None})

CredentialsMove == creds' \in Table /\ DOMAIN creds \subseteq DOMAIN creds'

LEMMA ExistingRow ==
  ASSUME TypeOK
  PROVE  \A i \in Existing : i \in DOMAIN creds /\ creds[i] \in Credential
BY Rows DEF TypeOK, Existing

LEMMA KeyInUse == Primary \in {"old", "new"}
BY DEF Primary

LEMMA CredentialChanged ==
  ASSUME TypeOK, NEW i \in DOMAIN creds, NEW row \in Credential \cup {None},
         creds' = [creds EXCEPT ![i] = row]
  PROVE  CredentialsMove
BY RowChanged DEF TypeOK, CredentialsMove, Table

LEMMA CredentialsUnchanged ==
  ASSUME TypeOK, UNCHANGED creds
  PROVE  CredentialsMove
BY DEF TypeOK, CredentialsMove, Table

(* Tokens are stored, a credential is enabled or disabled *)
LEMMA TokensStored ==
  ASSUME TypeOK, NEW i \in Existing, NEW grant \in Nat
  PROVE  /\ WithTokens(i, grant) \in Table
         /\ DOMAIN WithTokens(i, grant) = DOMAIN creds
         /\ WithTokens(i, grant)[i] \in Credential
<1> DEFINE row == [creds[i] EXCEPT !.tk = Primary, !.grant = grant]
<1>1. i \in DOMAIN creds /\ creds[i] \in Credential
  BY ExistingRow
<1>2. row \in Credential
  BY <1>1, KeyInUse DEF Credential
<1>3. WithTokens(i, grant) = [creds EXCEPT ![i] = row]
  BY <1>1 DEF WithTokens
<1> HIDE DEF row
<1> QED
  BY <1>1, <1>2, <1>3, RowChanged DEF TypeOK, Table

LEMMA Enabled ==
  ASSUME NEW cs \in Table, NEW i \in DOMAIN cs, NEW active \in BOOLEAN
  PROVE  /\ WithActive(cs, i, active) \in Table
         /\ DOMAIN WithActive(cs, i, active) = DOMAIN cs
<1>1. CASE cs[i] = None
  BY <1>1 DEF WithActive
<1>2. CASE cs[i] # None
  <2> DEFINE row == [cs[i] EXCEPT !.active = active]
  <2>1. cs[i] \in Credential
    BY <1>2, Rows DEF Table
  <2>2. row \in Credential
    BY <2>1 DEF Credential
  <2>3. WithActive(cs, i, active) = [cs EXCEPT ![i] = row]
    BY <1>2 DEF WithActive
  <2> HIDE DEF row
  <2> QED
    BY <2>2, <2>3, RowChanged DEF Table
<1> QED
  BY <1>1, <1>2

LEMMA Refreshed ==
  ASSUME TypeOK, NEW w \in waits, NEW refreshed \in BOOLEAN
  PROVE  /\ AfterRefresh(w, refreshed) \in Table
         /\ DOMAIN AfterRefresh(w, refreshed) = DOMAIN creds
         /\ w.cred \in Existing => AfterRefresh(w, refreshed)[w.cred] \in Credential
<1>1. w.grant \in Nat
  BY DEF TypeOK, Wait
<1>2. CASE refreshed /\ w.cred \in Existing
  BY <1>1, <1>2, TokensStored DEF AfterRefresh
<1>3. CASE ~(refreshed /\ w.cred \in Existing)
  BY <1>3, ExistingRow DEF AfterRefresh, TypeOK, Table
<1> QED
  BY <1>2, <1>3

LEMMA AnswerToCredential ==
  ASSUME TypeOK, NEW w \in waits, NEW refreshed \in BOOLEAN,
         \/ TalkAccepted(w, refreshed) \/ TalkRefused(w, refreshed) \/ TalkPostponed(w, refreshed)
         \/ \E hard \in BOOLEAN : TalkBounced(w, refreshed, hard)
  PROVE  CredentialsMove
<1> DEFINE cs == AfterRefresh(w, refreshed)
<1>1. /\ cs \in Table /\ DOMAIN cs = DOMAIN creds
      /\ w.cred \in Existing => cs[w.cred] \in Credential
  BY Refreshed
<1>2. w.cred \in DOMAIN cs
  BY <1>1 DEF TypeOK
<1>3. /\ WithActive(cs, w.cred, TRUE) \in Table
      /\ WithActive(cs, w.cred, FALSE) \in Table
      /\ DOMAIN WithActive(cs, w.cred, TRUE) = DOMAIN creds
      /\ DOMAIN WithActive(cs, w.cred, FALSE) = DOMAIN creds
  <2> HIDE DEF cs
  <2> QED
    BY <1>1, <1>2, Enabled
<1>4. CASE TalkPostponed(w, refreshed) /\ w.cred \in Existing
  <2> DEFINE row == [cs[w.cred] EXCEPT !.cooldown = "future"]
  <2>1. creds' = [cs EXCEPT ![w.cred] = row]
    BY <1>4 DEF TalkPostponed
  <2>2. row \in Credential
    BY <1>1, <1>4 DEF Credential
  <2> HIDE DEF cs, row
  <2> QED
    BY <1>1, <1>2, <2>1, <2>2, RowChanged DEF CredentialsMove, Table
<1>5. CASE ~(TalkPostponed(w, refreshed) /\ w.cred \in Existing)
  <2>1. \/ creds' = cs
        \/ creds' = WithActive(cs, w.cred, TRUE)
        \/ creds' = WithActive(cs, w.cred, FALSE)
    BY <1>5 DEF TalkAccepted, TalkRefused, TalkPostponed, TalkBounced
  <2> HIDE DEF cs
  <2> QED
    BY <1>1, <1>3, <2>1 DEF CredentialsMove
<1> QED
  BY <1>4, <1>5

LEMMA CredentialSteps ==
  ASSUME TypeOK, NEW i \in Existing,
         \/ \E password \in BOOLEAN, active \in BOOLEAN \cup {None} : UpdateCredential(i, password, active)
         \/ DeleteCredential(i)
         \/ CooldownPasses(i)
  PROVE  CredentialsMove
<1>1. i \in DOMAIN creds /\ creds[i] \in Credential
  BY ExistingRow
<1>2. \E row \in Credential \cup {None} : creds' = [creds EXCEPT ![i] = row]
  <2>1. ASSUME NEW password \in BOOLEAN, NEW active \in BOOLEAN \cup {None},
               UpdateCredential(i, password, active)
        PROVE  <1>2!:
    <3> DEFINE pw == IF password THEN Primary ELSE creds[i].pw
               on == IF active = None THEN creds[i].active ELSE active
               row == [creds[i] EXCEPT !.pw = pw, !.active = on]
    <3>1. pw \in {None, "old", "new"}
      BY <1>1, KeyInUse DEF Credential
    <3>2. on \in BOOLEAN
      <4>1. CASE active = None
        BY <1>1, <4>1 DEF Credential
      <4>2. CASE active # None
        BY <4>2
      <4> QED
        BY <4>1, <4>2
    <3>3. creds' = [creds EXCEPT ![i].pw = pw, ![i].active = on]
      <4>1. CASE active = None
        BY <1>1, <2>1, <4>1 DEF UpdateCredential, Credential
      <4>2. CASE active # None
        BY <1>1, <2>1, <4>2 DEF UpdateCredential, Credential
      <4> QED
        BY <4>1, <4>2
    <3> HIDE DEF pw, on
    <3>4. creds' = [creds EXCEPT ![i] = row]
      BY <1>1, <3>3
    <3>5. row \in Credential
      BY <1>1, <3>1, <3>2 DEF Credential
    <3> QED
      BY <3>4, <3>5
  <2>2. CASE DeleteCredential(i)
    BY <2>2 DEF DeleteCredential
  <2>3. CASE CooldownPasses(i)
    <3> DEFINE row == [creds[i] EXCEPT !.cooldown = "past"]
    <3>1. row \in Credential
      BY <1>1 DEF Credential
    <3>2. creds' = [creds EXCEPT ![i] = row]
      BY <2>3 DEF CooldownPasses
    <3> QED
      BY <3>1, <3>2
  <2> QED
    BY <2>1, <2>2, <2>3
<1> QED
  BY <1>1, <1>2, CredentialChanged

LEMMA ConsentStep ==
  ASSUME TypeOK, NEW w \in waits, NEW granted \in BOOLEAN, EndCallback(w, granted)
  PROVE  CredentialsMove
<1>1. CASE ~granted \/ w.cred \notin Existing
  BY <1>1, CredentialsUnchanged DEF EndCallback
<1>2. CASE granted /\ w.cred \in Existing
  <2> DEFINE i == w.cred
             cs == WithTokens(i, w.grant)
             row == [cs[i] EXCEPT !.active = TRUE, !.connected = w.grant]
  <2>1. w.grant \in Nat
    BY DEF TypeOK, Wait
  <2>2. cs \in Table /\ DOMAIN cs = DOMAIN creds /\ cs[i] \in Credential /\ i \in DOMAIN cs
    BY <1>2, <2>1, TokensStored, ExistingRow
  <2>3. row \in Credential
    BY <2>1, <2>2 DEF Credential
  <2>4. creds' = [cs EXCEPT ![i] = row]
    BY <1>2 DEF EndCallback
  <2> HIDE DEF cs, row
  <2> QED
    BY <2>2, <2>3, <2>4, RowChanged DEF CredentialsMove, Table
<1> QED
  BY <1>1, <1>2

LEMMA RotationStep ==
  ASSUME TypeOK, CommitRotation
  PROVE  CredentialsMove
<1>1. \A i \in DOMAIN creds : creds[i] \in Credential \cup {None}
  BY Rows DEF TypeOK
<1>2. \A i \in Existing : [creds[i] EXCEPT !.pw = "new"] \in Credential
  BY ExistingRow DEF Credential
<1>3. creds' \in [DOMAIN creds -> Credential \cup {None}]
  BY <1>1, <1>2 DEF CommitRotation
<1>4. creds' \in Table
  BY <1>3, SameLength DEF TypeOK, Table
<1> QED
  BY <1>3, <1>4 DEF CredentialsMove

LEMMA CreationStep ==
  ASSUME TypeOK, NEW p \in Providers, CreateCredential(p)
  PROVE  CredentialsMove
<1>1. NewCredential(p) \in Credential
  BY KeyInUse DEF NewCredential, Credential, Providers
<1>2. creds' = Append(creds, NewCredential(p)) /\ creds \in Table
  BY DEF CreateCredential, TypeOK, Table
<1> QED
  BY <1>1, <1>2, RowAdded DEF CredentialsMove, Table

LEMMA CredentialsStep ==
  ASSUME TypeOK, [Next]_vars
  PROVE  CredentialsMove
<1>1. CASE UNCHANGED vars
  BY <1>1, CredentialsUnchanged DEF vars, credVars
<1>2. CASE UpdateTemplate \/ DeleteTemplate \/ DeployBothKeys \/ BeginRotation
  BY <1>2, CredentialsUnchanged
  DEF UpdateTemplate, DeleteTemplate, DeployBothKeys, BeginRotation, credVars
<1>3. CASE \E r \in Recipients : Block(r) \/ Unblock(r)
  BY <1>3, CredentialsUnchanged DEF Block, Unblock, credVars
<1>4. CASE NewCampaignStep
  BY <1>4, CredentialsUnchanged DEF NewCampaignStep, CreateCampaign, CreateTest, credVars
<1>5. CASE CampaignStep
  BY <1>5, CredentialsUnchanged
  DEF CampaignStep, AddEmails, SetPool, SetStatus, StartCampaign, SelectAll, QueueMails, EndCampaign, credVars
<1>6. CASE MailStep
  BY <1>6, CredentialsUnchanged DEF MailStep, EditMail, SelectMail, DeleteMail, Claim, credVars
<1>7. CASE CredentialStep
  <2> SUFFICES ASSUME NEW i \in Existing, CredentialStep!(i)
               PROVE  CredentialsMove
    BY <1>7 DEF CredentialStep
  <2>1. CASE TestCredential(i) \/ \E aged \in SUBSET (1..begun) : StartOAuth(i, aged)
    BY <2>1, CredentialsUnchanged DEF TestCredential, StartOAuth, credVars
  <2> QED
    BY <2>1, CredentialSteps
<1>8. CASE WaitStep
  BY <1>8, AnswerToCredential, ConsentStep DEF WaitStep
<1>9. CASE \E p \in Providers : CreateCredential(p)
  BY <1>9, CreationStep
<1>10. CASE \E f \in 1..MaxFlows : Callback(f)
  BY <1>10, CredentialsUnchanged DEF Callback
<1>11. CASE CommitRotation
  BY <1>11, RotationStep
<1> QED
  BY <1>1, <1>2, <1>3, <1>4, <1>5, <1>6, <1>7, <1>8, <1>9, <1>10, <1>11 DEF Next

-----------------------------------------------------------------------------
(* Sign-ins *)

FlowsOK ==
  /\ flows \in [1..MaxFlows -> DOMAIN creds \cup {None}] /\ begun \in 0..MaxFlows
  /\ exchanges \in [1..MaxFlows -> Nat]

(* A step that neither starts nor consumes a sign-in *)
LEMMA FlowsUnchanged ==
  ASSUME TypeOK, Pending, CredentialsMove, UNCHANGED <<flows, begun, exchanges>>
  PROVE  FlowsOK' /\ Pending' /\ (FlowUsedOnce => FlowUsedOnce')
BY DEF TypeOK, FlowsOK, CredentialsMove, Pending, FlowUsedOnce

LEMMA SignInStarted ==
  ASSUME TypeOK, Pending, CredentialsMove, NEW i \in Existing, NEW aged \in SUBSET (1..begun),
         StartOAuth(i, aged)
  PROVE  FlowsOK' /\ Pending' /\ (FlowUsedOnce => FlowUsedOnce')
<1>1. i \in DOMAIN creds /\ begun \in Nat /\ MaxFlows \in Nat
  BY DeskAssumption DEF Existing, TypeOK
<1>2. /\ begun < MaxFlows /\ begun' = begun + 1 /\ exchanges' = exchanges
      /\ flows' = Started(i, aged)
  BY DEF StartOAuth
<1>3. flows \in [1..MaxFlows -> DOMAIN creds \cup {None}] /\ exchanges \in [1..MaxFlows -> Nat]
  BY DEF TypeOK
<1>4. flows' \in [1..MaxFlows -> DOMAIN creds \cup {None}]
  BY <1>1, <1>2, <1>3 DEF Started
<1>5. Pending'
  <2> SUFFICES ASSUME NEW f \in 1..MaxFlows
               PROVE  /\ flows'[f] # None => exchanges'[f] = 0
                      /\ f > begun' => flows'[f] = None /\ exchanges'[f] = 0
    BY DEF Pending
  <2>1. flows'[f] = IF f = begun + 1 THEN i ELSE IF f \in aged THEN None ELSE flows[f]
    BY <1>2, <1>3 DEF Started
  <2> QED
    BY <1>1, <1>2, <2>1 DEF Pending
<1> QED
  BY <1>1, <1>2, <1>3, <1>4, <1>5 DEF FlowsOK, CredentialsMove, FlowUsedOnce

LEMMA RowsOfDeletedGo ==
  ASSUME TypeOK, Pending, CredentialsMove, NEW i \in Existing, DeleteCredential(i)
  PROVE  FlowsOK' /\ Pending' /\ (FlowUsedOnce => FlowUsedOnce')
<1>1. /\ flows' = WithoutFlows(i) /\ UNCHANGED <<begun, exchanges>>
      /\ flows \in [1..MaxFlows -> DOMAIN creds \cup {None}]
  BY DEF DeleteCredential, TypeOK
<1>2. \A f \in 1..MaxFlows : flows'[f] = flows[f] \/ flows'[f] = None
  BY <1>1 DEF WithoutFlows
<1>3. flows' \in [1..MaxFlows -> DOMAIN creds \cup {None}]
  BY <1>1 DEF WithoutFlows
<1> QED
  BY <1>1, <1>2, <1>3 DEF TypeOK, FlowsOK, CredentialsMove, Pending, FlowUsedOnce

LEMMA SignInConsumed ==
  ASSUME TypeOK, Pending, CredentialsMove, NEW f \in 1..MaxFlows, Callback(f)
  PROVE  FlowsOK' /\ Pending' /\ (FlowUsedOnce => FlowUsedOnce')
<1>1. /\ flows[f] # None /\ flows' = [flows EXCEPT ![f] = None]
      /\ exchanges' = [exchanges EXCEPT ![f] = @ + 1] /\ begun' = begun
  BY DEF Callback, Consumed
<1>2. /\ flows \in [1..MaxFlows -> DOMAIN creds \cup {None}]
      /\ exchanges \in [1..MaxFlows -> Nat] /\ begun \in 0..MaxFlows
  BY DEF TypeOK
<1>3. exchanges[f] = 0 /\ ~(f > begun)
  BY <1>1 DEF Pending
<1>4. FlowsOK'
  BY <1>1, <1>2, <1>3 DEF FlowsOK, CredentialsMove
<1>5. Pending'
  BY <1>1, <1>2, <1>3 DEF Pending
<1>6. FlowUsedOnce => FlowUsedOnce'
  BY <1>1, <1>2, <1>3 DEF FlowUsedOnce
<1> QED
  BY <1>4, <1>5, <1>6

LEMMA FlowsStep ==
  ASSUME TypeOK, Pending, [Next]_vars
  PROVE  FlowsOK' /\ Pending' /\ (FlowUsedOnce => FlowUsedOnce')
<1> CredentialsMove
  BY CredentialsStep
<1>1. CASE UNCHANGED vars
  BY <1>1, FlowsUnchanged DEF vars, credVars
<1>2. CASE UpdateTemplate \/ DeleteTemplate \/ DeployBothKeys \/ BeginRotation \/ CommitRotation
  BY <1>2, FlowsUnchanged
  DEF UpdateTemplate, DeleteTemplate, DeployBothKeys, BeginRotation, CommitRotation, credVars
<1>3. CASE \E r \in Recipients : Block(r) \/ Unblock(r)
  BY <1>3, FlowsUnchanged DEF Block, Unblock, credVars
<1>4. CASE NewCampaignStep
  BY <1>4, FlowsUnchanged DEF NewCampaignStep, CreateCampaign, CreateTest, credVars
<1>5. CASE CampaignStep
  BY <1>5, FlowsUnchanged
  DEF CampaignStep, AddEmails, SetPool, SetStatus, StartCampaign, SelectAll, QueueMails, EndCampaign, credVars
<1>6. CASE MailStep
  BY <1>6, FlowsUnchanged DEF MailStep, EditMail, SelectMail, DeleteMail, Claim, credVars
<1>7. CASE CredentialStep
  <2> SUFFICES ASSUME NEW i \in Existing, CredentialStep!(i)
               PROVE  FlowsOK' /\ Pending' /\ (FlowUsedOnce => FlowUsedOnce')
    BY <1>7 DEF CredentialStep
  <2>1. CASE \/ \E password \in BOOLEAN, active \in BOOLEAN \cup {None} : UpdateCredential(i, password, active)
             \/ TestCredential(i) \/ CooldownPasses(i)
    BY <2>1, FlowsUnchanged DEF UpdateCredential, TestCredential, CooldownPasses, credVars
  <2>2. CASE DeleteCredential(i)
    BY <2>2, RowsOfDeletedGo
  <2>3. CASE \E aged \in SUBSET (1..begun) : StartOAuth(i, aged)
    BY <2>3, SignInStarted
  <2> QED
    BY <2>1, <2>2, <2>3
<1>8. CASE WaitStep
  BY <1>8, FlowsUnchanged
  DEF WaitStep, TalkAccepted, TalkRefused, TalkPostponed, TalkBounced, EndCallback
<1>9. CASE \E p \in Providers : CreateCredential(p)
  BY <1>9, FlowsUnchanged DEF CreateCredential
<1>10. CASE \E f \in 1..MaxFlows : Callback(f)
  BY <1>10, SignInConsumed
<1> QED
  BY <1>1, <1>2, <1>3, <1>4, <1>5, <1>6, <1>7, <1>8, <1>9, <1>10 DEF Next

-----------------------------------------------------------------------------
(* Handlers that wait *)

WaitsOK ==
  /\ waits \subseteq Wait
  /\ \A w \in waits : w.cred \in DOMAIN creds /\ (w.for = "send" => w.mail \in DOMAIN mails)

LEMMA WaitsKept ==
  ASSUME TypeOK, CredentialsMove, MailsMove, waits' \subseteq waits
  PROVE  WaitsOK'
BY DEF TypeOK, WaitsOK, CredentialsMove, MailsMove

LEMMA WaitsAdded ==
  ASSUME TypeOK, CredentialsMove, MailsMove, NEW w \in Wait, waits' = waits \cup {w},
         w.cred \in DOMAIN creds, w.for = "send" => w.mail \in DOMAIN mails
  PROVE  WaitsOK'
BY DEF TypeOK, WaitsOK, CredentialsMove, MailsMove

LEMMA TalkIsWait ==
  ASSUME TypeOK, NEW i \in Existing, NEW k \in DOMAIN mails \cup {None}
  PROVE  /\ Talk(i, k) \in Wait /\ Talk(i, k).cred = i /\ Talk(i, k).mail = k
         /\ Talk(i, k).for = "send" => k \in DOMAIN mails
<1>1. creds[i] \in Credential /\ i \in Nat
  BY ExistingRow, Rows DEF TypeOK
<1>2. k \in Nat \cup {None}
  BY Rows DEF TypeOK
<1>3. /\ creds[i].active \in BOOLEAN /\ creds[i].grant \in Nat
      /\ (creds[i].provider = "basic") \in BOOLEAN
  BY <1>1 DEF Credential
<1> DEFINE on == creds[i].active
           basic == creds[i].provider = "basic"
           why == IF k = None THEN "test" ELSE "send"
<1>4. why \in {"test", "send", "callback"} /\ (why = "send" => k # None)
  OBVIOUS
<1>5. Talk(i, k) = [for |-> why, cred |-> i, basic |-> basic, grant |-> creds[i].grant,
                    was |-> on, mail |-> k]
  BY Zenon DEF Talk
<1>6. on \in BOOLEAN /\ basic \in BOOLEAN
  BY <1>3
<1> HIDE DEF on, basic, why
<1>7. Talk(i, k) \in Wait
  BY <1>1, <1>2, <1>3, <1>4, <1>5, <1>6 DEF Wait
<1> QED
  BY <1>4, <1>5, <1>7

LEMMA WaitsStep ==
  ASSUME TypeOK, CredentialsMove, MailsMove, [Next]_vars
  PROVE  WaitsOK'
<1>1. CASE UNCHANGED vars
  BY <1>1, WaitsKept DEF vars
<1>2. CASE UpdateTemplate \/ DeleteTemplate \/ DeployBothKeys \/ BeginRotation \/ CommitRotation
  BY <1>2, WaitsKept
  DEF UpdateTemplate, DeleteTemplate, DeployBothKeys, BeginRotation, CommitRotation
<1>3. CASE \E r \in Recipients : Block(r) \/ Unblock(r)
  BY <1>3, WaitsKept DEF Block, Unblock
<1>4. CASE NewCampaignStep
  BY <1>4, WaitsKept DEF NewCampaignStep, CreateCampaign, CreateTest
<1>5. CASE CampaignStep
  BY <1>5, WaitsKept
  DEF CampaignStep, AddEmails, SetPool, SetStatus, StartCampaign, SelectAll, QueueMails, EndCampaign
<1>6. CASE MailStep
  <2> SUFFICES ASSUME NEW k \in DOMAIN mails, MailStep!(k)
               PROVE  WaitsOK'
    BY <1>6 DEF MailStep
  <2>1. ASSUME NEW i \in Existing, Claim(k, i)
        PROVE  WaitsOK'
    BY <2>1, TalkIsWait, WaitsAdded, ExistingRow DEF Claim
  <2>2. CASE ~\E i \in Existing : Claim(k, i)
    BY <2>2, WaitsKept DEF EditMail, SelectMail, DeleteMail
  <2> QED
    BY <2>1, <2>2
<1>7. CASE CredentialStep
  <2> SUFFICES ASSUME NEW i \in Existing, CredentialStep!(i)
               PROVE  WaitsOK'
    BY <1>7 DEF CredentialStep
  <2>1. CASE TestCredential(i)
    BY <2>1, TalkIsWait, WaitsAdded, ExistingRow DEF TestCredential
  <2>2. CASE ~TestCredential(i)
    BY <2>2, WaitsKept DEF UpdateCredential, DeleteCredential, CooldownPasses, StartOAuth
  <2> QED
    BY <2>1, <2>2
<1>8. CASE WaitStep
  BY <1>8, WaitsKept
  DEF WaitStep, TalkAccepted, TalkRefused, TalkPostponed, TalkBounced, EndCallback
<1>9. CASE \E p \in Providers : CreateCredential(p)
  BY <1>9, WaitsKept DEF CreateCredential
<1>10. CASE \E f \in 1..MaxFlows : Callback(f)
  <2> SUFFICES ASSUME NEW f \in 1..MaxFlows, Callback(f)
               PROVE  WaitsOK'
    BY <1>10
  <2>1. flows[f] \in DOMAIN creds /\ DOMAIN creds \subseteq Nat /\ f \in Nat
    BY Rows DEF Callback, TypeOK
  <2>2. /\ Exchange(f) \in Wait /\ Exchange(f).cred = flows[f]
        /\ Exchange(f).for = "callback"
    BY <2>1 DEF Exchange, Wait
  <2> QED
    BY <2>1, <2>2, WaitsAdded DEF Callback
<1> QED
  BY <1>1, <1>2, <1>3, <1>4, <1>5, <1>6, <1>7, <1>8, <1>9, <1>10 DEF Next

-----------------------------------------------------------------------------
(* What is left of the state, and the theorems *)

RestOK ==
  /\ template \in Nat \cup {None} /\ blocked \subseteq Recipients
  /\ keys \in {"old", "both", "new"} /\ script \in {"idle", "read", "ended"}
  /\ ops \in 0..MaxOps

LEMMA RequestCounted ==
  ASSUME TypeOK, Request
  PROVE  ops' \in 0..MaxOps
BY DeskAssumption DEF TypeOK, Request

LEMMA RestStep ==
  ASSUME TypeOK, [Next]_vars
  PROVE  RestOK'
<1> USE RequestCounted DEF TypeOK, RestOK
<1>1. CASE UNCHANGED vars
  BY <1>1 DEF vars, mailVars, keyVars
<1>2. CASE UpdateTemplate \/ DeleteTemplate
  BY <1>2 DEF UpdateTemplate, DeleteTemplate, keyVars
<1>3. CASE DeployBothKeys \/ BeginRotation \/ CommitRotation
  BY <1>3 DEF DeployBothKeys, BeginRotation, CommitRotation, mailVars
<1>4. CASE \E r \in Recipients : Block(r) \/ Unblock(r)
  BY <1>4 DEF Block, Unblock, keyVars
<1>5. CASE NewCampaignStep
  BY <1>5 DEF NewCampaignStep, CreateCampaign, CreateTest, keyVars
<1>6. CASE CampaignStep
  BY <1>6
  DEF CampaignStep, AddEmails, SetPool, SetStatus, StartCampaign, SelectAll, QueueMails, EndCampaign, keyVars
<1>7. CASE MailStep
  BY <1>7 DEF MailStep, EditMail, SelectMail, DeleteMail, Claim, keyVars
<1>8. CASE CredentialStep
  BY <1>8
  DEF CredentialStep, UpdateCredential, DeleteCredential, TestCredential, CooldownPasses, StartOAuth,
      mailVars, keyVars
<1>9. CASE WaitStep
  <2> SUFFICES ASSUME NEW w \in waits, WaitStep!(w)
               PROVE  RestOK'
    BY <1>9 DEF WaitStep
  <2>1. ASSUME NEW refreshed \in BOOLEAN, NEW hard \in BOOLEAN, TalkBounced(w, refreshed, hard)
        PROVE  RestOK'
    <3>1. w.mail \in DOMAIN mails
      BY <2>1 DEF TalkBounced
    <3>2. mails[w.mail].to \in Recipients
      <4>1. mails \in Seq(Mail)
        OBVIOUS
      <4>2. mails[w.mail] \in Mail
        BY <3>1, <4>1, Rows
      <4> QED
        BY <4>2 DEF Mail
    <3>3. blocked' \subseteq Recipients
      BY <2>1, <3>2 DEF TalkBounced
    <3> QED
      BY <2>1, <3>3 DEF TalkBounced, keyVars
  <2>2. CASE ~\E refreshed \in BOOLEAN, hard \in BOOLEAN : TalkBounced(w, refreshed, hard)
    BY <2>2 DEF TalkAccepted, TalkRefused, TalkPostponed, EndCallback, mailVars, keyVars
  <2> QED
    BY <2>1, <2>2
<1>10. CASE \E p \in Providers : CreateCredential(p)
  BY <1>10 DEF CreateCredential, mailVars, keyVars
<1>11. CASE \E f \in 1..MaxFlows : Callback(f)
  BY <1>11 DEF Callback, mailVars, keyVars
<1> QED
  BY <1>1, <1>2, <1>3, <1>4, <1>5, <1>6, <1>7, <1>8, <1>9, <1>10, <1>11 DEF Next

IInv == TypeOK /\ InHand /\ Pending

LEMMA InitIInv ==
  ASSUME Init
  PROVE  IInv
<1>1. OldCampaign \in Campaign /\ OldCredential \in Credential
  BY DEF OldCampaign, OldCredential, Campaign, Credential, Providers
<1>2. camps \in Seq(Campaign) /\ creds \in Seq(Credential \cup {None})
  BY <1>1 DEF Init
<1>3. mails \in Seq(Mail) /\ DOMAIN mails = {} /\ waits = {}
  BY DEF Init
<1>4. /\ asked \in [DOMAIN camps -> SUBSET Nat]
      /\ flows \in [1..MaxFlows -> DOMAIN creds \cup {None}]
      /\ exchanges \in [1..MaxFlows -> Nat]
  BY DEF Init
<1>5. /\ template \in Nat \cup {None} /\ blocked \subseteq Recipients
      /\ begun \in 0..MaxFlows /\ ops \in 0..MaxOps
      /\ keys \in {"old", "both", "new"} /\ script \in {"idle", "read", "ended"}
  BY DeskAssumption DEF Init
<1>6. TypeOK
  BY <1>2, <1>3, <1>4, <1>5 DEF TypeOK
<1>7. InHand /\ Pending
  BY <1>3 DEF Init, InHand, Pending
<1> QED
  BY <1>6, <1>7 DEF IInv

LEMMA NextIInv ==
  ASSUME IInv, [Next]_vars
  PROVE  IInv'
<1> USE DEF IInv
<1>1. CampaignsMove /\ MailsMove /\ HandsMove
  BY Step
<1>2. CredentialsMove
  BY CredentialsStep
<1>3. FlowsOK' /\ Pending'
  BY FlowsStep
<1>4. WaitsOK'
  BY <1>1, <1>2, WaitsStep
<1>5. InHand'
  BY <1>1, InHandKept
<1>6. TypeOK'
  BY <1>1, <1>2, <1>3, <1>4, RestStep
  DEF TypeOK, CampaignsMove, MailsMove, CredentialsMove, Table, FlowsOK, WaitsOK, RestOK
<1> QED
  BY <1>3, <1>5, <1>6

LEMMA Invariance == Spec => []IInv
<1>1. Init => IInv
  BY InitIInv
<1>2. IInv /\ [Next]_vars => IInv'
  BY NextIInv
<1> QED
  BY <1>1, <1>2, PTL DEF Spec

(* Every row the desk's handlers write has the columns of its table, its   *)
(* campaign exists, and what a handler waits for is there when it ends.    *)
THEOREM TypeCorrect == Spec => []TypeOK
<1>1. IInv => TypeOK
  BY DEF IInv
<1> QED
  BY <1>1, Invariance, PTL

(* Two mails of a campaign are never for the same person, however leads    *)
(* are added, deleted and added again while its mails are being sent.      *)
THEOREM NobodyGetsTwoMails == Spec => []OncePerRecipient
<1>1. Init => OncePerRecipient
  BY DEF Init, OncePerRecipient
<1>2. IInv /\ OncePerRecipient /\ [Next]_vars => OncePerRecipient'
  BY Step, OnceKept DEF IInv
<1> QED
  BY <1>1, <1>2, Invariance, PTL DEF Spec

(* No sign-in's code is exchanged twice, whoever repeats the callback and  *)
(* whatever is deleted or swept in between.                                *)
THEOREM CodesAreUsedOnce == Spec => []FlowUsedOnce
<1>1. Init => FlowUsedOnce
  BY DEF Init, FlowUsedOnce
<1>2. IInv /\ FlowUsedOnce /\ [Next]_vars => FlowUsedOnce'
  BY FlowsStep DEF IInv
<1> QED
  BY <1>1, <1>2, Invariance, PTL DEF Spec

(* A restricted campaign becomes unrestricted only when an operator asks   *)
(* for the empty pool: no deletion of a credential empties one.            *)
THEOREM RestrictionsStay == Spec => PoolNeverWidens
<1>1. IInv /\ [Next]_vars =>
        [\A c \in DOMAIN camps :
           (camps[c].pool # {} /\ camps'[c].pool = {}) => asked'[c] = {}]_vars
  BY Step DEF IInv, CampaignsMove
<1> QED
  BY <1>1, Invariance, PTL DEF Spec, PoolNeverWidens

=============================================================================
