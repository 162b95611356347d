------------------------------ MODULE AuthProofs ------------------------------
(***************************************************************************)
(* Theorems about the Auth service: refresh tokens and what calls on one   *)
(* phone make of its one-time codes, its user and its devices.  A step of  *)
(* Services is a step of one part that leaves the others alone, so each    *)
(* part's invariant is proved from its own actions.                        *)
(***************************************************************************)
EXTENDS Services, FiniteSetTheorems, WellFoundedInduction, TLAPS

USE SessionAssumption, AccessAssumption

-----------------------------------------------------------------------------
(***************************************************************************)
(* Refresh tokens: one live token in a family                              *)
(***************************************************************************)
\* Calls hold tokens there are; a family is named by its first token.
TokensTyped ==
  /\ tokens \in Seq(Sessions!Token) /\ Len(tokens) <= MaxTokens
  /\ tokenCalls \in [Workers -> {Sessions!Idle} \cup Sessions!Call]
  /\ \A w \in Workers : tokenCalls[w] # Sessions!Idle =>
       /\ tokenCalls[w].token \in 0..Len(tokens)
       /\ tokenCalls[w].phase # "minting" => tokenCalls[w].token # 0
  /\ \A t \in DOMAIN tokens : tokens[t].family <= t

\* A family no two calls have overlapped on: one call at most is at work on it,
\* and what that call has read or done says which tokens may be live.
FamilySound(f) ==
  /\ \A w, o \in Workers : Sessions!Touches(w, f) /\ Sessions!Touches(o, f) => w = o
  /\ \A s, t \in Sessions!Live(f) : s = t
  /\ \A w \in Workers : Sessions!Touches(w, f) =>
       /\ tokenCalls[w].phase = "revoking" => Sessions!Live(f) \subseteq {tokenCalls[w].token}
       /\ tokenCalls[w].phase = "minting" => Sessions!Live(f) = {}

SessionInv == TokensTyped /\ \A f \in Sessions!Families \ familiesOverlapped : FamilySound(f)

LEMMA SessionInit == Sessions!Init => SessionInv
<1> SUFFICES ASSUME Sessions!Init PROVE SessionInv
  OBVIOUS
<1>1. TokensTyped
  BY DEF Sessions!Init, TokensTyped
<1>2. \A f : FamilySound(f)
  BY DEF Sessions!Init, FamilySound, Sessions!Touches, Sessions!Idle, Sessions!Live
<1>3. QED
  BY <1>1, <1>2 DEF SessionInv

\* Tokens keep their families, and a revoked one stays revoked.
OnlyRevokes ==
  /\ DOMAIN tokens' = DOMAIN tokens
  /\ \A t \in DOMAIN tokens :
       /\ tokens'[t].family = tokens[t].family
       /\ tokens[t].revoked => tokens'[t].revoked

\* One call moves; what it touches afterwards is covered by what it knows.
LEMMA FamilyMoves ==
  ASSUME TokensTyped, NEW f, FamilySound(f), NEW w \in Workers, OnlyRevokes,
         \A o \in Workers \ {w} : tokenCalls'[o] = tokenCalls[o],
         Sessions!Touches(w, f)' =>
           /\ \A o \in Workers \ {w} : ~Sessions!Touches(o, f)
           /\ tokenCalls'[w].phase = "revoking" => Sessions!Live(f) \subseteq {tokenCalls'[w].token}
           /\ tokenCalls'[w].phase = "minting" => Sessions!Live(f)' = {}
  PROVE  FamilySound(f)'
<1>1. Sessions!Live(f)' \subseteq Sessions!Live(f)
  BY DEF OnlyRevokes, Sessions!Live
<1>2. \A o \in Workers \ {w} : Sessions!Touches(o, f)' => Sessions!Touches(o, f)
  <2> SUFFICES ASSUME NEW o \in Workers \ {w}, Sessions!Touches(o, f)'
               PROVE  Sessions!Touches(o, f)
    OBVIOUS
  <2>1. tokenCalls'[o] = tokenCalls[o] /\ tokenCalls[o] # Sessions!Idle /\ tokenCalls[o].token # 0
    BY DEF Sessions!Touches, Sessions!Idle
  <2>2. tokenCalls[o].token \in DOMAIN tokens
    BY <2>1 DEF TokensTyped
  <2>3. tokens'[tokenCalls[o].token].family = f
    BY <2>1 DEF Sessions!Touches
  <2>4. QED
    BY <2>1, <2>2, <2>3 DEF Sessions!Touches, OnlyRevokes
<1>3. \A v, o \in Workers : Sessions!Touches(v, f)' /\ Sessions!Touches(o, f)' => v = o
  BY <1>2 DEF FamilySound
<1>4. \A s, t \in Sessions!Live(f)' : s = t
  BY <1>1 DEF FamilySound
<1>5. ASSUME NEW v \in Workers, Sessions!Touches(v, f)'
      PROVE  /\ tokenCalls'[v].phase = "revoking" => Sessions!Live(f)' \subseteq {tokenCalls'[v].token}
             /\ tokenCalls'[v].phase = "minting" => Sessions!Live(f)' = {}
  <2>1. CASE v = w
    BY <1>1, <1>5, <2>1
  <2>2. CASE v # w
    BY <1>1, <1>2, <1>5, <2>2 DEF FamilySound
  <2>3. QED
    BY <2>1, <2>2
<1>6. QED
  BY <1>3, <1>4, <1>5 DEF FamilySound

\* Marking a token keeps its family.
LEMMA MarkedToken ==
  ASSUME NEW k \in Sessions!Token
  PROVE  /\ [k EXCEPT !.revoked = TRUE] \in Sessions!Token
         /\ [k EXCEPT !.revoked = TRUE].family = k.family
         /\ [k EXCEPT !.revoked = TRUE].revoked = TRUE
         /\ [k EXCEPT !.expired = TRUE] \in Sessions!Token
         /\ [k EXCEPT !.expired = TRUE].family = k.family
         /\ [k EXCEPT !.expired = TRUE].revoked = k.revoked
BY DEF Sessions!Token

LEMMA TokenMarked ==
  ASSUME tokens \in Seq(Sessions!Token), NEW t \in DOMAIN tokens,
         \/ tokens' = [tokens EXCEPT ![t].revoked = TRUE]
         \/ tokens' = [tokens EXCEPT ![t].expired = TRUE]
  PROVE  /\ tokens' \in Seq(Sessions!Token) /\ Len(tokens') = Len(tokens) /\ OnlyRevokes
         /\ tokens' = [tokens EXCEPT ![t].revoked = TRUE] => tokens'[t].revoked
<1>1. PICK k \in Sessions!Token :
        /\ tokens' = [tokens EXCEPT ![t] = k] /\ k.family = tokens[t].family
        /\ tokens[t].revoked => k.revoked
        /\ tokens' = [tokens EXCEPT ![t].revoked = TRUE] => k.revoked
  <2>1. tokens[t] \in Sessions!Token
    OBVIOUS
  <2>2. CASE tokens' = [tokens EXCEPT ![t].revoked = TRUE]
    <3> DEFINE k == [tokens[t] EXCEPT !.revoked = TRUE]
    <3>1. k \in Sessions!Token /\ k.family = tokens[t].family /\ k.revoked
      BY <2>1, MarkedToken
    <3>2. tokens' = [tokens EXCEPT ![t] = k]
      BY <2>2
    <3>3. QED
      BY <3>1, <3>2
  <2>3. CASE tokens' = [tokens EXCEPT ![t].expired = TRUE] /\ tokens' # [tokens EXCEPT ![t].revoked = TRUE]
    <3> DEFINE k == [tokens[t] EXCEPT !.expired = TRUE]
    <3>1. k \in Sessions!Token /\ k.family = tokens[t].family /\ k.revoked = tokens[t].revoked
      BY <2>1, MarkedToken
    <3>2. tokens' = [tokens EXCEPT ![t] = k]
      BY <2>3
    <3>3. QED
      BY <2>3, <3>1, <3>2
  <2>4. QED
    BY <2>2, <2>3
<1>2. /\ tokens' \in Seq(Sessions!Token) /\ Len(tokens') = Len(tokens)
      /\ DOMAIN tokens' = DOMAIN tokens /\ tokens'[t] = k
      /\ \A s \in DOMAIN tokens \ {t} : tokens'[s] = tokens[s]
  BY <1>1
<1>3. OnlyRevokes
  BY <1>1, <1>2 DEF OnlyRevokes
<1>4. QED
  BY <1>1, <1>2, <1>3

LEMMA SessionStep ==
  ASSUME SessionInv, Sessions!Next
  PROVE  SessionInv'
<1> USE DEF Sessions!Idle
<1>0. /\ TokensTyped /\ \A f \in Sessions!Families \ familiesOverlapped : FamilySound(f)
      /\ tokens \in Seq(Sessions!Token) /\ DOMAIN tokens = 1..Len(tokens) /\ Len(tokens) \in Nat
      /\ \A s \in DOMAIN tokens :
           /\ tokens[s] \in Sessions!Token /\ tokens[s].family \in 1..MaxTokens
           /\ tokens[s].family <= s
  <2>1. tokens \in Seq(Sessions!Token) /\ \A s \in DOMAIN tokens : tokens[s].family <= s
    BY DEF SessionInv, TokensTyped
  <2>2. \A s \in DOMAIN tokens : tokens[s] \in Sessions!Token
    BY <2>1
  <2>3. QED
    BY <2>1, <2>2 DEF SessionInv, TokensTyped, Sessions!Token, Sessions!Families
<1>1. ASSUME NEW w \in Workers, Sessions!IssuePair(w)
      PROVE  SessionInv'
  <2>1. /\ tokenCalls' = [tokenCalls EXCEPT ![w] = [phase |-> "minting", token |-> 0]]
        /\ tokens' = tokens /\ familiesOverlapped' = familiesOverlapped
    BY <1>1 DEF Sessions!IssuePair, Sessions!Enter
  <2>2. TokensTyped'
    BY <1>0, <2>1 DEF TokensTyped, Sessions!Call
  <2>3. OnlyRevokes
    BY <2>1 DEF OnlyRevokes
  <2>4. \A f : ~Sessions!Touches(w, f)'
    BY <1>0, <2>1 DEF TokensTyped, Sessions!Touches
  <2>5. \A o \in Workers \ {w} : tokenCalls'[o] = tokenCalls[o]
    BY <1>0, <2>1 DEF TokensTyped
  <2>6. \A f \in Sessions!Families \ familiesOverlapped : FamilySound(f)'
    BY <1>0, <2>1, <2>3, <2>4, <2>5, FamilyMoves
  <2>7. QED
    BY <2>1, <2>2, <2>6 DEF SessionInv, Sessions!Families
<1>2. ASSUME NEW w \in Workers, NEW t \in DOMAIN tokens, Sessions!RotateFind(w, t)
      PROVE  SessionInv'
  <2> DEFINE g == tokens[t].family
             phase == IF Sessions!Dead(t) THEN "reusing" ELSE "revoking"
  <2>1. /\ tokenCalls[w] = Sessions!Idle
        /\ tokenCalls' = [tokenCalls EXCEPT ![w] = [phase |-> phase, token |-> t]]
        /\ tokens' = tokens
        /\ familiesOverlapped' = IF ~Sessions!Dead(t) /\ \E o \in Workers : Sessions!Touches(o, g)
                                   THEN familiesOverlapped \cup {g} ELSE familiesOverlapped
    BY <1>2 DEF Sessions!RotateFind, Sessions!Enter
  <2>2. TokensTyped'
    BY <1>0, <2>1 DEF TokensTyped, Sessions!Call
  <2>3. OnlyRevokes
    BY <2>1 DEF OnlyRevokes
  <2>4. \A o \in Workers \ {w} : tokenCalls'[o] = tokenCalls[o]
    BY <1>0, <2>1 DEF TokensTyped
  <2>5. tokenCalls'[w] = [phase |-> phase, token |-> t]
    BY <1>0, <2>1 DEF TokensTyped
  <2>6. \A f : Sessions!Touches(w, f)' <=> ~Sessions!Dead(t) /\ f = g
    BY <1>0, <2>1, <2>5 DEF Sessions!Touches
  <2>7. ASSUME NEW f \in Sessions!Families \ familiesOverlapped'
        PROVE  FamilySound(f)'
    <3>1. f \in Sessions!Families \ familiesOverlapped /\ FamilySound(f)
      BY <1>0, <2>1, <2>7
    <3>2. ~Sessions!Dead(t) /\ f = g =>
            /\ \A o \in Workers : ~Sessions!Touches(o, f)
            /\ Sessions!Live(f) \subseteq {t}
      BY <1>0, <2>1, <2>7, <3>1 DEF FamilySound, Sessions!Live, Sessions!Dead
    <3>3. Sessions!Touches(w, f)' =>
            /\ \A o \in Workers \ {w} : ~Sessions!Touches(o, f)
            /\ tokenCalls'[w].phase = "revoking" => Sessions!Live(f) \subseteq {tokenCalls'[w].token}
            /\ tokenCalls'[w].phase = "minting" => Sessions!Live(f)' = {}
      BY <2>5, <2>6, <3>2
    <3>4. QED
      BY <1>0, <2>1, <2>3, <2>4, <3>1, <3>3, FamilyMoves
  <2>8. QED
    BY <2>2, <2>7 DEF SessionInv, Sessions!Families
<1>3. ASSUME NEW w \in Workers, Sessions!RotateRevoke(w)
      PROVE  SessionInv'
  <2> DEFINE t == tokenCalls[w].token
  <2>1. /\ tokenCalls[w].phase = "revoking"
        /\ tokens' = [tokens EXCEPT ![t].revoked = TRUE]
        /\ tokenCalls' = [tokenCalls EXCEPT ![w] = [phase |-> "minting", token |-> t]]
        /\ familiesOverlapped' = familiesOverlapped
    BY <1>3 DEF Sessions!RotateRevoke, Sessions!Enter
  <2>2. tokenCalls[w] # Sessions!Idle /\ t \in DOMAIN tokens
    BY <1>0, <2>1 DEF TokensTyped
  <2>3. /\ tokens' \in Seq(Sessions!Token) /\ Len(tokens') = Len(tokens)
        /\ OnlyRevokes /\ tokens'[t].revoked
    BY <1>0, <2>1, <2>2, TokenMarked
  <2>4. tokenCalls'[w] = [phase |-> "minting", token |-> t]
    BY <1>0, <2>1 DEF TokensTyped
  <2>5. TokensTyped'
    BY <1>0, <2>1, <2>2, <2>3 DEF TokensTyped, Sessions!Call, OnlyRevokes
  <2>6. \A o \in Workers \ {w} : tokenCalls'[o] = tokenCalls[o]
    BY <1>0, <2>1 DEF TokensTyped
  <2>7. ASSUME NEW f \in Sessions!Families \ familiesOverlapped
        PROVE  FamilySound(f)'
    <3>1. FamilySound(f)
      BY <1>0
    <3>2. Sessions!Touches(w, f)' => Sessions!Touches(w, f)
      BY <1>0, <2>1, <2>2, <2>3, <2>4 DEF Sessions!Touches, OnlyRevokes
    <3>3. Sessions!Touches(w, f)' => Sessions!Live(f)' = {}
      <4>1. Sessions!Touches(w, f) => Sessions!Live(f) \subseteq {t}
        BY <2>1, <3>1 DEF FamilySound
      <4>2. Sessions!Live(f)' \subseteq Sessions!Live(f) \ {t}
        BY <2>3 DEF Sessions!Live, OnlyRevokes
      <4>3. QED
        BY <3>2, <4>1, <4>2
    <3>4. Sessions!Touches(w, f)' => \A o \in Workers \ {w} : ~Sessions!Touches(o, f)
      BY <2>1, <3>1, <3>2 DEF FamilySound
    <3>5. tokenCalls'[w].phase = "minting"
      BY <2>4
    <3>6. QED
      BY <1>0, <2>1, <2>3, <2>6, <3>1, <3>3, <3>4, <3>5, FamilyMoves
  <2>8. QED
    BY <2>1, <2>5, <2>7 DEF SessionInv, Sessions!Families
<1>4. ASSUME NEW w \in Workers, Sessions!Mint(w)
      PROVE  SessionInv'
  <2> DEFINE t == tokenCalls[w].token
             new == Len(tokens) + 1
             fam == IF t = 0 THEN new ELSE tokens[t].family
             token == [family |-> fam, revoked |-> FALSE, expired |-> FALSE]
  <2>1. /\ tokenCalls[w].phase = "minting" /\ new <= MaxTokens
        /\ tokens' = Append(tokens, token)
        /\ tokenCalls' = [tokenCalls EXCEPT ![w] = Sessions!Idle]
        /\ familiesOverlapped' = familiesOverlapped
    BY <1>4 DEF Sessions!Mint, Sessions!Leave
  <2>2. tokenCalls[w] # Sessions!Idle /\ t \in 0..Len(tokens)
    BY <1>0, <2>1 DEF TokensTyped
  <2>3. fam \in 1..new /\ token \in Sessions!Token
    <3>1. CASE t = 0
      BY <1>0, <2>1, <3>1 DEF Sessions!Token, Sessions!Families
    <3>2. CASE t # 0
      <4>1. t \in DOMAIN tokens
        BY <1>0, <2>2, <3>2
      <4>2. tokens[t].family \in 1..MaxTokens /\ tokens[t].family <= t
        BY <1>0, <4>1
      <4>3. QED
        BY <1>0, <2>2, <3>2, <4>2 DEF Sessions!Token, Sessions!Families
    <3>3. QED
      BY <3>1, <3>2
  <2>4. /\ tokens' \in Seq(Sessions!Token) /\ Len(tokens') = new /\ DOMAIN tokens' = 1..new
        /\ \A s \in 1..Len(tokens) : tokens'[s] = tokens[s]
        /\ tokens'[new].family = fam /\ ~tokens'[new].revoked
    BY <1>0, <2>1, <2>3
  <2>5. /\ \A f : ~Sessions!Touches(w, f)'
        /\ \A o \in Workers \ {w} : tokenCalls'[o] = tokenCalls[o]
    BY <1>0, <2>1 DEF TokensTyped, Sessions!Touches
  <2> HIDE DEF fam, token
  <2>6. TokensTyped'
    <3>1. \A s \in DOMAIN tokens' : tokens'[s].family <= s
      <4> TAKE s \in DOMAIN tokens'
      <4>1. CASE s = new
        BY <1>0, <2>3, <2>4, <4>1
      <4>2. CASE s # new
        BY <1>0, <2>4, <4>2 DEF TokensTyped
      <4>3. QED
        BY <4>1, <4>2
    <3>2. tokenCalls' \in [Workers -> {Sessions!Idle} \cup Sessions!Call]
      BY <1>0, <2>1 DEF TokensTyped
    <3>3. \A o \in Workers : tokenCalls'[o] # Sessions!Idle =>
            /\ tokenCalls'[o].token \in 0..Len(tokens')
            /\ tokenCalls'[o].phase # "minting" => tokenCalls'[o].token # 0
      BY <1>0, <2>1, <2>4, <2>5 DEF TokensTyped
    <3>4. QED
      BY <2>1, <2>4, <3>1, <3>2, <3>3 DEF TokensTyped
  <2>7. ASSUME NEW o \in Workers, NEW f, Sessions!Touches(o, f)'
        PROVE  o # w /\ Sessions!Touches(o, f)
    <3>1. o # w /\ tokenCalls'[o] = tokenCalls[o] /\ tokenCalls[o] # Sessions!Idle
      BY <2>5, <2>7 DEF Sessions!Touches
    <3>2. tokenCalls[o].token # 0 /\ tokens'[tokenCalls[o].token].family = f
      BY <2>7, <3>1 DEF Sessions!Touches
    <3>3. tokenCalls[o].token \in 1..Len(tokens)
      BY <1>0, <3>1, <3>2 DEF TokensTyped
    <3>4. QED
      BY <2>4, <2>7, <3>1, <3>2, <3>3 DEF Sessions!Touches
  <2>8. \A f : Sessions!Live(f)' = Sessions!Live(f) \cup (IF f = fam THEN {new} ELSE {})
    <3> TAKE f
    <3>1. Sessions!Live(f)' = {s \in 1..new : tokens'[s].family = f /\ ~tokens'[s].revoked}
      BY <2>4 DEF Sessions!Live
    <3>2. Sessions!Live(f) = {s \in 1..Len(tokens) : tokens[s].family = f /\ ~tokens[s].revoked}
      BY <1>0 DEF Sessions!Live
    <3>3. 1..new = 1..Len(tokens) \cup {new} /\ new \notin 1..Len(tokens)
      BY <1>0
    <3>4. QED
      BY <2>4, <3>1, <3>2, <3>3
  <2>9. ASSUME NEW f \in Sessions!Families \ familiesOverlapped, f = fam
        PROVE  /\ Sessions!Live(f) = {}
               /\ \A o \in Workers \ {w} : ~Sessions!Touches(o, f)
    <3>1. CASE t = 0
      <4>1. f = new
        BY <2>9, <3>1 DEF fam
      <4>2. \A s \in DOMAIN tokens : tokens[s].family # new
        <5> TAKE s \in DOMAIN tokens
        <5>1. tokens[s].family <= s /\ s <= Len(tokens) /\ tokens[s].family \in Nat
          BY <1>0
        <5>2. QED
          BY <1>0, <5>1
      <4>3. \A o \in Workers : ~Sessions!Touches(o, f)
        <5> SUFFICES ASSUME NEW o \in Workers, Sessions!Touches(o, f)
                     PROVE  FALSE
          OBVIOUS
        <5>1. tokenCalls[o].token \in DOMAIN tokens
          BY <1>0 DEF TokensTyped, Sessions!Touches
        <5>2. QED
          BY <4>1, <4>2, <5>1 DEF Sessions!Touches
      <4>4. QED
        BY <4>1, <4>2, <4>3 DEF Sessions!Live
    <3>2. CASE t # 0
      <4>1. Sessions!Touches(w, f)
        BY <2>1, <2>2, <2>9, <3>2 DEF Sessions!Touches, fam
      <4>2. FamilySound(f)
        BY <1>0
      <4>3. QED
        BY <2>1, <4>1, <4>2 DEF FamilySound
    <3>3. QED
      BY <3>1, <3>2
  <2>10. ASSUME NEW f \in Sessions!Families \ familiesOverlapped
         PROVE  FamilySound(f)'
    <3>1. FamilySound(f)
      BY <1>0
    <3>2. CASE f = fam
      <4>1. Sessions!Live(f)' = {new} /\ \A o \in Workers : ~Sessions!Touches(o, f)'
        BY <2>7, <2>8, <2>9, <3>2
      <4>2. QED
        BY <4>1 DEF FamilySound
    <3>3. CASE f # fam
      <4>1. Sessions!Live(f)' = Sessions!Live(f)
        BY <2>8, <3>3
      <4>2. \A o \in Workers : Sessions!Touches(o, f)' =>
              Sessions!Touches(o, f) /\ tokenCalls'[o] = tokenCalls[o]
        BY <2>5, <2>7
      <4>3. QED
        BY <2>1, <3>1, <4>1, <4>2 DEF FamilySound
    <3>4. QED
      BY <3>2, <3>3
  <2>11. QED
    BY <2>1, <2>6, <2>10 DEF SessionInv, Sessions!Families
<1>5. ASSUME NEW t \in DOMAIN tokens, Sessions!Logout(t) \/ Sessions!Expire(t)
      PROVE  SessionInv'
  <2>1. /\ \/ tokens' = [tokens EXCEPT ![t].revoked = TRUE]
           \/ tokens' = [tokens EXCEPT ![t].expired = TRUE]
        /\ tokenCalls' = tokenCalls
        /\ familiesOverlapped' = familiesOverlapped
    BY <1>5 DEF Sessions!Logout, Sessions!Expire
  <2>2. tokens' \in Seq(Sessions!Token) /\ Len(tokens') = Len(tokens) /\ OnlyRevokes
    BY <1>0, <2>1, TokenMarked
  <2>3. TokensTyped'
    BY <1>0, <2>1, <2>2 DEF TokensTyped, OnlyRevokes
  <2>4. ASSUME NEW f \in Sessions!Families \ familiesOverlapped
        PROVE  FamilySound(f)'
    <3>1. FamilySound(f)
      BY <1>0
    <3>2. Sessions!Live(f)' \subseteq Sessions!Live(f)
      BY <2>2 DEF OnlyRevokes, Sessions!Live
    <3>3. \A o \in Workers : Sessions!Touches(o, f)' => Sessions!Touches(o, f)
      <4> SUFFICES ASSUME NEW o \in Workers, Sessions!Touches(o, f)'
                   PROVE  Sessions!Touches(o, f)
        OBVIOUS
      <4>1. /\ tokenCalls[o] # Sessions!Idle /\ tokenCalls[o].token # 0
            /\ tokens'[tokenCalls[o].token].family = f
        BY <2>1 DEF Sessions!Touches
      <4>2. tokenCalls[o].token \in DOMAIN tokens
        BY <1>0, <4>1 DEF TokensTyped
      <4>3. QED
        BY <2>1, <2>2, <4>1, <4>2 DEF Sessions!Touches, OnlyRevokes
    <3>4. QED
      BY <2>1, <3>1, <3>2, <3>3 DEF FamilySound
  <2>5. QED
    BY <2>1, <2>3, <2>4 DEF SessionInv, Sessions!Families
<1>6. ASSUME NEW w \in Workers, Sessions!RevokeFamily(w) \/ Sessions!Stop(w)
      PROVE  SessionInv'
  <2>1. /\ tokenCalls' = [tokenCalls EXCEPT ![w] = Sessions!Idle]
        /\ tokens' = tokens /\ familiesOverlapped' = familiesOverlapped
    BY <1>6 DEF Sessions!RevokeFamily, Sessions!Stop, Sessions!Leave
  <2>2. TokensTyped'
    BY <1>0, <2>1 DEF TokensTyped
  <2>3. OnlyRevokes
    BY <2>1 DEF OnlyRevokes
  <2>4. \A f : ~Sessions!Touches(w, f)'
    BY <1>0, <2>1 DEF TokensTyped, Sessions!Touches
  <2>5. \A o \in Workers \ {w} : tokenCalls'[o] = tokenCalls[o]
    BY <1>0, <2>1 DEF TokensTyped
  <2>6. \A f \in Sessions!Families \ familiesOverlapped : FamilySound(f)'
    BY <1>0, <2>1, <2>3, <2>4, <2>5, FamilyMoves
  <2>7. QED
    BY <2>1, <2>2, <2>6 DEF SessionInv, Sessions!Families
<1>7. QED
  BY <1>1, <1>2, <1>3, <1>4, <1>5, <1>6 DEF Sessions!Next

LEMMA SessionInvariant == Spec => []SessionInv
<1>1. Init => SessionInv
  BY SessionInit DEF Init
<1>2. ASSUME SessionInv, [Next]_vars
      PROVE  SessionInv'
  <2>1. Sessions!Next \/ UNCHANGED sessions
    BY <1>2 DEF Next, vars
  <2>2. CASE UNCHANGED sessions
    BY <1>2, <2>2 DEF sessions, SessionInv, TokensTyped, FamilySound, Sessions!Touches, Sessions!Live
  <2>3. QED
    BY <1>2, <2>1, <2>2, SessionStep
<1>3. QED
  BY <1>1, <1>2, PTL DEF Spec

\* While the calls on a family of refresh tokens do not overlap, wherever one of
\* them may stop and whatever dead tokens are presented again, at most one of its
\* tokens is live (token.service.ts rotate, mint, revokeFamily).
THEOREM OneLiveTokenAlways == Spec => []OneLiveToken
<1>1. SessionInv => OneLiveToken
  BY DEF SessionInv, OneLiveToken, Sessions!OneLiveToken, FamilySound
<1>2. QED
  BY <1>1, SessionInvariant, PTL

-----------------------------------------------------------------------------
(***************************************************************************)
(* Logins: one user, one device and a bounded number of guesses for a phone*)
(***************************************************************************)
\* A call on phone p is at work.
OnPhone(w, p) == loginCalls[w] # Access!Idle /\ loginCalls[w].phone = p

Active(p) == {i \in DOMAIN devices : devices[i].user = p /\ devices[i].active}

LoginsTyped ==
  /\ users \in [Phones -> Access!Roles \cup {"nobody"}]
  /\ challenges \in Seq(Access!Challenge) /\ Len(challenges) <= MaxChallenges
  /\ devices \in Seq(Access!Device)
  /\ loginCalls = [w \in Workers |-> loginCalls[w]]
  /\ \A w \in Workers : loginCalls[w] # Access!Idle => loginCalls[w].phone \in Phones
  /\ registered \in [Phones -> Nat]
  /\ guesses \in [1..MaxChallenges -> Nat] /\ opened \in [1..MaxChallenges -> Nat]

\* Who binds a device, or has one, is a user; who registered is a passenger, and
\* who is nobody never did.
UsersKnown ==
  /\ \A w \in Workers : loginCalls[w].phase \in {"binding", "deactivated"} =>
       users[loginCalls[w].phone] # "nobody"
  /\ \A w \in Workers : loginCalls[w].phase = "provisioning" =>
       loginCalls[w].role \in Access!Roles
  /\ \A i \in DOMAIN devices : users[devices[i].user] # "nobody"
  /\ \A p \in Phones : users[p] = "nobody" => registered[p] = 0
  /\ Access!RegisteredOnce

\* A call that verifies holds a code of its phone.
CodesHeld ==
  \A w \in Workers :
    /\ loginCalls[w].phase = "counted" => loginCalls[w].purpose \in Access!Purposes
    /\ loginCalls[w].phase = "verifying" =>
         /\ loginCalls[w].id \in DOMAIN challenges /\ loginCalls[w].entity \in Access!Challenge
         /\ challenges[loginCalls[w].id].phone = loginCalls[w].phone
         /\ loginCalls[w].entity.phone = loginCalls[w].phone

\* Codes that are not created yet were not tried.
Untried ==
  \A c \in 1..MaxChallenges : c \notin DOMAIN challenges => guesses[c] = 0 /\ opened[c] = 0

Alone(p) == \A w, o \in Workers : OnPhone(w, p) /\ OnPhone(o, p) => w = o

\* The devices of a phone on which calls never overlapped.
DeviceSound(p) ==
  users[p] = "driver" =>
    /\ \A i, j \in Active(p) : i = j
    /\ \A w \in Workers : OnPhone(w, p) /\ loginCalls[w].phase = "deactivated" => Active(p) = {}

\* Its codes: each row counts the comparisons made, but for the one that the call
\* at work is about to save.
CodeSound(p) ==
  /\ \A c \in DOMAIN challenges : challenges[c].phone = p =>
       /\ guesses[c] = challenges[c].attempts
       /\ opened[c] = IF challenges[c].consumed THEN 1 ELSE 0
  /\ \A w \in Workers : OnPhone(w, p) /\ loginCalls[w].phase = "verifying" =>
       LET c == loginCalls[w].id IN
       /\ loginCalls[w].entity.attempts = challenges[c].attempts + 1
       /\ ~challenges[c].consumed

\* Its codes of the window: a call that counted them may still add one.
WindowSound(p) ==
  /\ Cardinality(Access!Recent(p)) <= MaxGuesses
  /\ \A w \in Workers : OnPhone(w, p) /\ loginCalls[w].phase = "counted" =>
       Cardinality(Access!Recent(p)) < MaxGuesses

LoginInv ==
  /\ LoginsTyped /\ UsersKnown /\ CodesHeld /\ Untried
  /\ \A p \in Phones \ phonesOverlapped :
       Alone(p) /\ DeviceSound(p) /\ CodeSound(p) /\ WindowSound(p)

-----------------------------------------------------------------------------
(***************************************************************************)
(* Numbers and counts                                                      *)
(***************************************************************************)
LEMMA LeastOf ==
  ASSUME NEW T \in SUBSET Nat, T # {}
  PROVE  \E x \in T : \A y \in T : x <= y
<1>1. PICK R : R = OpToRel(<, Nat)
  OBVIOUS
<1>2. IsWellFoundedOn(R, Nat)
  BY <1>1, NatLessThanWellFounded
<1>3. PICK x \in T : \A y \in T : ~(<<y, x>> \in R)
  BY <1>2, WFMin
<1>4. \A y \in T : ~(y < x)
  BY <1>1, <1>3 DEF OpToRel
<1>5. QED
  BY <1>4

LEMMA GreatestOf ==
  ASSUME NEW n \in Nat, NEW S \in SUBSET (1..n), S # {}
  PROVE  \E x \in S : \A y \in S : y <= x
<1>1. PICK T : T = {n - s : s \in S}
  OBVIOUS
<1>2. T \in SUBSET Nat /\ T # {}
  <2>1. \A s \in S : n - s \in Nat
    OBVIOUS
  <2>2. QED
    BY <1>1, <2>1
<1>3. PICK t \in T : \A u \in T : t <= u
  BY <1>2, LeastOf
<1>4. PICK x \in S : t = n - x
  BY <1>1
<1>5. ASSUME NEW y \in S
      PROVE  y <= x
  <2>1. n - x <= n - y
    BY <1>1, <1>3, <1>4
  <2>2. x \in 1..n /\ y \in 1..n
    OBVIOUS
  <2>3. QED
    BY <2>1, <2>2
<1>6. QED
  BY <1>5

\* The instance's Cardinality is that of FiniteSets.
LEMMA SameCount ==
  ASSUME NEW S
  PROVE  Access!Cardinality(S) = Cardinality(S)
BY DEF Access!Cardinality, Cardinality

LEMMA AtMostOne ==
  ASSUME NEW S, \A x, y \in S : x = y
  PROVE  Cardinality(S) <= 1
<1>1. CASE S = {}
  BY <1>1, FS_EmptySet
<1>2. CASE S # {}
  <2>1. PICK x \in S : TRUE
    BY <1>2
  <2>2. S = {x}
    OBVIOUS
  <2>3. QED
    BY <2>2, FS_Singleton
<1>3. QED
  BY <1>1, <1>2

LEMMA RecentFinite ==
  ASSUME challenges \in Seq(Access!Challenge), NEW p
  PROVE  IsFiniteSet(Access!Recent(p)) /\ Cardinality(Access!Recent(p)) \in Nat
<1>1. IsFiniteSet(1..Len(challenges))
  BY FS_Interval
<1>2. Access!Recent(p) \in SUBSET (1..Len(challenges))
  BY DEF Access!Recent
<1>3. QED
  BY <1>1, <1>2, FS_Subset, FS_CardinalityType

-----------------------------------------------------------------------------
(***************************************************************************)
(* A call begins, goes on with its phone, or ends                          *)
(***************************************************************************)
LoginMoves(w, call) ==
  /\ loginCalls' = [loginCalls EXCEPT ![w] = call]
  /\ \/ call = Access!Idle /\ phonesOverlapped' = phonesOverlapped
     \/ /\ loginCalls[w] # Access!Idle /\ call # Access!Idle
        /\ call.phone = loginCalls[w].phone
        /\ phonesOverlapped' = phonesOverlapped
     \/ Access!Begin(w, call) /\ call # Access!Idle /\ call.phone \in Phones

LEMMA CallMoves ==
  ASSUME LoginInv, NEW w \in Workers, NEW call, LoginMoves(w, call)
  PROVE  /\ loginCalls' = [o \in Workers |-> loginCalls'[o]] /\ loginCalls'[w] = call
         /\ \A o \in Workers \ {w} : loginCalls'[o] = loginCalls[o]
         /\ \A o \in Workers : loginCalls'[o] # Access!Idle => loginCalls'[o].phone \in Phones
         /\ phonesOverlapped \subseteq phonesOverlapped'
         /\ \A p \in Phones \ phonesOverlapped' :
              /\ Alone(p) /\ Alone(p)'
              /\ OnPhone(w, p)' => \A o \in Workers \ {w} : ~OnPhone(o, p)
<1>1. /\ loginCalls = [o \in Workers |-> loginCalls[o]]
      /\ \A o \in Workers : loginCalls[o] # Access!Idle => loginCalls[o].phone \in Phones
      /\ \A p \in Phones \ phonesOverlapped : Alone(p)
  BY DEF LoginInv, LoginsTyped
<1>2. DOMAIN loginCalls = Workers
  BY <1>1
<1>3. /\ loginCalls' = [o \in Workers |-> loginCalls'[o]] /\ loginCalls'[w] = call
      /\ \A o \in Workers \ {w} : loginCalls'[o] = loginCalls[o]
  BY <1>2 DEF LoginMoves
<1>4. \A o \in Workers : loginCalls'[o] # Access!Idle => loginCalls'[o].phone \in Phones
  BY <1>1, <1>3 DEF LoginMoves
<1>5. phonesOverlapped \subseteq phonesOverlapped'
  BY DEF LoginMoves, Access!Begin
<1>6. ASSUME NEW p \in Phones \ phonesOverlapped'
      PROVE  /\ Alone(p) /\ Alone(p)'
             /\ OnPhone(w, p)' => \A o \in Workers \ {w} : ~OnPhone(o, p)
  <2>1. Alone(p)
    BY <1>1, <1>5
  <2>2. \A o \in Workers \ {w} : OnPhone(o, p)' <=> OnPhone(o, p)
    BY <1>3 DEF OnPhone, Access!Idle
  <2>3. OnPhone(w, p)' => \A o \in Workers \ {w} : ~OnPhone(o, p)
    <3>1. CASE OnPhone(w, p)
      BY <2>1, <3>1 DEF Alone
    <3>2. CASE OnPhone(w, p)' /\ ~OnPhone(w, p)
      <4>1. Access!Begin(w, call) /\ call.phone = p
        BY <1>3, <3>2 DEF LoginMoves, OnPhone, Access!Idle
      <4>2. QED
        BY <4>1 DEF Access!Begin, OnPhone
    <3>3. QED
      BY <3>1, <3>2
  <2>4. Alone(p)'
    BY <2>1, <2>2, <2>3 DEF Alone
  <2>5. QED
    BY <2>1, <2>3, <2>4
<1>7. QED
  BY <1>3, <1>4, <1>5, <1>6

\* The codes are left alone, by calls that do not verify or count them.
LEMMA CodesStay ==
  ASSUME LoginInv, NEW w \in Workers, NEW call, LoginMoves(w, call),
         UNCHANGED <<challenges, guesses, opened>>,
         call.phase \notin {"verifying", "counted"}
  PROVE  /\ CodesHeld' /\ Untried'
         /\ \A p \in Phones \ phonesOverlapped' : CodeSound(p)' /\ WindowSound(p)'
<1>1. /\ loginCalls'[w] = call /\ phonesOverlapped \subseteq phonesOverlapped'
      /\ \A o \in Workers \ {w} : loginCalls'[o] = loginCalls[o]
  BY CallMoves
<1>2. CodesHeld' /\ Untried'
  BY <1>1 DEF LoginInv, CodesHeld, Untried
<1>3. ASSUME NEW p \in Phones \ phonesOverlapped'
      PROVE  CodeSound(p)' /\ WindowSound(p)'
  <2>1. CodeSound(p) /\ WindowSound(p)
    BY <1>1, <1>3 DEF LoginInv
  <2>2. Access!Recent(p)' = Access!Recent(p)
    BY DEF Access!Recent
  <2>3. \A o \in Workers : loginCalls'[o].phase \in {"verifying", "counted"} =>
          loginCalls'[o] = loginCalls[o]
    BY <1>1
  <2>4. CodeSound(p)'
    BY <2>1, <2>3 DEF CodeSound, OnPhone, Access!Idle
  <2>5. WindowSound(p)'
    BY <2>1, <2>2, <2>3 DEF WindowSound, OnPhone, Access!Idle
  <2>6. QED
    BY <2>4, <2>5
<1>4. QED
  BY <1>2, <1>3

\* Users and devices are left alone, by calls that know what they go on with.
LEMMA UsersStay ==
  ASSUME LoginInv, NEW w \in Workers, NEW call, LoginMoves(w, call),
         UNCHANGED <<users, devices, registered>>,
         call.phase # "deactivated",
         call.phase = "binding" => users[call.phone] # "nobody",
         call.phase = "provisioning" => call.role \in Access!Roles
  PROVE  UsersKnown' /\ \A p \in Phones \ phonesOverlapped' : DeviceSound(p)'
<1>1. /\ loginCalls'[w] = call /\ phonesOverlapped \subseteq phonesOverlapped'
      /\ \A o \in Workers \ {w} : loginCalls'[o] = loginCalls[o]
  BY CallMoves
<1>2. UsersKnown'
  BY <1>1 DEF LoginInv, UsersKnown, Access!RegisteredOnce
<1>3. ASSUME NEW p \in Phones \ phonesOverlapped'
      PROVE  DeviceSound(p)'
  <2>1. DeviceSound(p)
    BY <1>1, <1>3 DEF LoginInv
  <2>2. \A o \in Workers : loginCalls'[o].phase = "deactivated" => loginCalls'[o] = loginCalls[o]
    BY <1>1
  <2>3. QED
    BY <2>1, <2>2 DEF DeviceSound, Active, OnPhone, Access!Idle
<1>4. QED
  BY <1>2, <1>3


-----------------------------------------------------------------------------
(***************************************************************************)
(* One lemma per action or group                                           *)
(***************************************************************************)
\* FindUser, Provision and EndCall change only what calls are in the middle of.
LEMMA OnlyCallsMove ==
  ASSUME LoginInv, NEW w \in Workers,
         \/ Access!FindUser(w) \/ Access!EndCall(w)
         \/ \E p \in Phones, role \in {"passenger", "driver"} : Access!Provision(w, p, role)
  PROVE  LoginInv'
<1>1. UNCHANGED <<users, challenges, devices, registered, guesses, opened>>
  BY DEF Access!FindUser, Access!EndCall, Access!Provision
<1>2. \A o \in Workers : loginCalls[o] # Access!Idle => loginCalls[o].phone \in Phones
  BY DEF LoginInv, LoginsTyped
<1>3. \E call : /\ LoginMoves(w, call) /\ call.phase \notin {"verifying", "counted", "deactivated"}
                /\ call.phase = "binding" => users[call.phone] # "nobody"
                /\ call.phase = "provisioning" => call.role \in Access!Roles
  <2>1. CASE Access!FindUser(w)
    <3>1. PICK call : /\ loginCalls' = [loginCalls EXCEPT ![w] = call]
                      /\ \/ /\ users[loginCalls[w].phone] # "nobody"
                            /\ call = [phase |-> "binding", phone |-> loginCalls[w].phone]
                         \/ call = [phase |-> "registering", phone |-> loginCalls[w].phone]
                         \/ call = Access!Idle
      BY <2>1 DEF Access!FindUser, Access!Enter
    <3>2. loginCalls[w] # Access!Idle /\ phonesOverlapped' = phonesOverlapped
      BY <2>1 DEF Access!FindUser, Access!Idle
    <3>3. LoginMoves(w, call)
      BY <3>1, <3>2 DEF LoginMoves, Access!Idle
    <3>4. QED
      BY <3>1, <3>3 DEF Access!Idle
  <2>2. CASE Access!EndCall(w)
    <3>1. LoginMoves(w, Access!Idle)
      BY <2>2 DEF Access!EndCall, Access!Enter, LoginMoves
    <3>2. QED
      BY <3>1 DEF Access!Idle
  <2>3. ASSUME NEW p \in Phones, NEW role \in {"passenger", "driver"}, Access!Provision(w, p, role)
        PROVE  \E call : /\ LoginMoves(w, call)
                         /\ call.phase \notin {"verifying", "counted", "deactivated"}
                         /\ call.phase = "binding" => users[call.phone] # "nobody"
                         /\ call.phase = "provisioning" => call.role \in Access!Roles
    <3>1. PICK call : call = [phase |-> "provisioning", phone |-> p, role |-> role]
      OBVIOUS
    <3>2. LoginMoves(w, call)
      BY <2>3, <3>1 DEF Access!Provision, Access!Begin, Access!Enter, LoginMoves, Access!Idle
    <3>3. QED
      BY <3>1, <3>2 DEF Access!Roles
  <2>4. QED
    BY <2>1, <2>2, <2>3
<1>4. PICK call : /\ LoginMoves(w, call) /\ call.phase \notin {"verifying", "counted", "deactivated"}
                  /\ call.phase = "binding" => users[call.phone] # "nobody"
                  /\ call.phase = "provisioning" => call.role \in Access!Roles
  BY <1>3
<1>5. LoginsTyped'
  <2>1. /\ loginCalls' = [o \in Workers |-> loginCalls'[o]]
        /\ \A o \in Workers : loginCalls'[o] # Access!Idle => loginCalls'[o].phone \in Phones
    BY <1>4, CallMoves
  <2>2. QED
    BY <1>1, <2>1 DEF LoginInv, LoginsTyped, Access!Idle
<1>6. /\ CodesHeld' /\ Untried'
      /\ \A p \in Phones \ phonesOverlapped' : CodeSound(p)' /\ WindowSound(p)'
  BY <1>1, <1>4, CodesStay
<1>7. UsersKnown' /\ \A p \in Phones \ phonesOverlapped' : DeviceSound(p)'
  BY <1>1, <1>4, UsersStay
<1>8. \A p \in Phones \ phonesOverlapped' : Alone(p)'
  BY <1>4, CallMoves
<1>9. QED
  BY <1>5, <1>6, <1>7, <1>8 DEF LoginInv

\* The code a call is about to save is one of its phone, not consumed, and its
\* attempts are not used up.
LEMMA LatestPending ==
  ASSUME challenges \in Seq(Access!Challenge), NEW p, NEW purpose,
         Access!Pending(p, purpose) # {}
  PROVE  Access!Latest(Access!Pending(p, purpose)) \in Access!Pending(p, purpose)
<1>1. PICK S : S = Access!Pending(p, purpose)
  OBVIOUS
<1>2. S \in SUBSET (1..Len(challenges)) /\ Len(challenges) \in Nat
  BY <1>1 DEF Access!Pending
<1>3. \E c \in S : \A d \in S : d <= c
  BY <1>1, <1>2, GreatestOf
<1>4. QED
  BY <1>1, <1>3 DEF Access!Latest

LEMMA TriedCode ==
  ASSUME NEW code \in Access!Challenge, code.attempts < MaxGuesses, NEW right \in BOOLEAN
  PROVE  LET tried == [code EXCEPT !.attempts = code.attempts + 1, !.consumed = right]
         IN  /\ tried \in Access!Challenge /\ tried.phone = code.phone
             /\ tried.attempts = code.attempts + 1
<1>1. PICK n \in 0..MaxGuesses : n = code.attempts + 1
  BY DEF Access!Challenge
<1>2. LET tried == [code EXCEPT !.attempts = n, !.consumed = right]
      IN  tried \in Access!Challenge /\ tried.phone = code.phone /\ tried.attempts = n
  BY DEF Access!Challenge
<1>3. QED
  BY <1>1, <1>2

LEMMA BeginCode ==
  ASSUME LoginInv, NEW w \in Workers, NEW p \in Phones, NEW purpose \in Access!Purposes,
         \/ Access!RequestOtp(w, p, purpose)
         \/ \E right \in BOOLEAN : Access!VerifyOtp(w, p, purpose, right)
  PROVE  LoginInv'
<1>1. /\ UNCHANGED <<users, challenges, devices, registered, guesses, opened>>
      /\ challenges \in Seq(Access!Challenge)
  BY DEF Access!RequestOtp, Access!VerifyOtp, LoginInv, LoginsTyped
<1>2. PICK call :
        /\ LoginMoves(w, call) /\ call.phase \in {"counted", "verifying"} /\ call.phone = p
        /\ call.phase = "counted" =>
             Cardinality(Access!Recent(p)) < MaxGuesses /\ call.purpose \in Access!Purposes
        /\ call.phase = "verifying" =>
             /\ call.id \in DOMAIN challenges /\ call.entity \in Access!Challenge
             /\ challenges[call.id].phone = p /\ call.entity.phone = p
             /\ ~challenges[call.id].consumed
             /\ call.entity.attempts = challenges[call.id].attempts + 1
  <2>1. CASE Access!RequestOtp(w, p, purpose)
    <3>1. PICK call : call = [phase |-> "counted", phone |-> p, purpose |-> purpose]
      OBVIOUS
    <3>2. Access!Begin(w, call) /\ Access!Cardinality(Access!Recent(p)) < MaxGuesses
      BY <2>1, <3>1 DEF Access!RequestOtp
    <3>3. LoginMoves(w, call)
      BY <3>1, <3>2 DEF LoginMoves, Access!Begin, Access!Enter, Access!Idle
    <3>4. QED
      BY <3>1, <3>2, <3>3, SameCount
  <2>2. ASSUME NEW right \in BOOLEAN, Access!VerifyOtp(w, p, purpose, right)
        PROVE  \E call :
                 /\ LoginMoves(w, call) /\ call.phase = "verifying" /\ call.phone = p
                 /\ call.id \in DOMAIN challenges /\ call.entity \in Access!Challenge
                 /\ challenges[call.id].phone = p /\ call.entity.phone = p
                 /\ ~challenges[call.id].consumed
                 /\ call.entity.attempts = challenges[call.id].attempts + 1
    <3>1. PICK c : c = Access!Latest(Access!Pending(p, purpose))
      OBVIOUS
    <3>2. PICK entity : entity = [challenges[c] EXCEPT !.attempts = challenges[c].attempts + 1,
                                                       !.consumed = right]
      OBVIOUS
    <3>3. PICK call : call = [phase |-> "verifying", phone |-> p, id |-> c, entity |-> entity]
      OBVIOUS
    <3>4. /\ Access!Begin(w, call) /\ Access!Pending(p, purpose) # {}
          /\ challenges[c].attempts < MaxGuesses
      BY <2>2, <3>1, <3>2, <3>3 DEF Access!VerifyOtp
    <3>5. c \in DOMAIN challenges /\ challenges[c].phone = p /\ ~challenges[c].consumed
      <4>1. c \in Access!Pending(p, purpose)
        BY <1>1, <3>1, <3>4, LatestPending
      <4>2. QED
        BY <4>1 DEF Access!Pending
    <3>6. challenges[c] \in Access!Challenge
      BY <1>1, <3>5
    <3>7. /\ entity \in Access!Challenge /\ entity.phone = p
          /\ entity.attempts = challenges[c].attempts + 1
      BY <3>2, <3>4, <3>5, <3>6, TriedCode
    <3>8. LoginMoves(w, call)
      BY <3>3, <3>4 DEF LoginMoves, Access!Begin, Access!Enter, Access!Idle
    <3>9. QED
      BY <3>3, <3>5, <3>7, <3>8
  <2>3. QED
    BY <2>1, <2>2
<1>3. /\ loginCalls' = [o \in Workers |-> loginCalls'[o]] /\ loginCalls'[w] = call
      /\ \A o \in Workers \ {w} : loginCalls'[o] = loginCalls[o]
      /\ \A o \in Workers : loginCalls'[o] # Access!Idle => loginCalls'[o].phone \in Phones
      /\ phonesOverlapped \subseteq phonesOverlapped'
      /\ \A q \in Phones \ phonesOverlapped' : Alone(q)'
  BY <1>2, CallMoves
<1>4. LoginsTyped'
  BY <1>1, <1>3 DEF LoginInv, LoginsTyped, Access!Idle
<1>5. UsersKnown' /\ \A q \in Phones \ phonesOverlapped' : DeviceSound(q)'
  BY <1>1, <1>2, UsersStay
<1>6. CodesHeld'
  BY <1>1, <1>2, <1>3 DEF LoginInv, CodesHeld
<1>7. Untried'
  BY <1>1 DEF LoginInv, Untried
<1>8. ASSUME NEW q \in Phones \ phonesOverlapped'
      PROVE  CodeSound(q)' /\ WindowSound(q)'
  <2>1. CodeSound(q) /\ WindowSound(q)
    BY <1>3, <1>8 DEF LoginInv
  <2>2. Access!Recent(q)' = Access!Recent(q)
    BY <1>1 DEF Access!Recent
  <2>3. CodeSound(q)'
    BY <1>1, <1>2, <1>3, <2>1 DEF CodeSound, OnPhone, Access!Idle
  <2>4. WindowSound(q)'
    BY <1>2, <1>3, <2>1, <2>2 DEF WindowSound, OnPhone, Access!Idle
  <2>5. QED
    BY <2>3, <2>4
<1>9. QED
  BY <1>3, <1>4, <1>5, <1>6, <1>7, <1>8 DEF LoginInv


LEMMA SaveChallengeStep ==
  ASSUME LoginInv, NEW w \in Workers, Access!SaveChallenge(w)
  PROVE  LoginInv'
<1>1. PICK p : p = loginCalls[w].phone
  OBVIOUS
<1>2. PICK n : n = Len(challenges) + 1
  OBVIOUS
<1>3. PICK code : code = [phone |-> p, purpose |-> loginCalls[w].purpose, attempts |-> 0,
                          consumed |-> FALSE, expired |-> FALSE, recent |-> TRUE]
  OBVIOUS
<1>4. /\ loginCalls[w].phase = "counted" /\ Len(challenges) < MaxChallenges
      /\ challenges' = Append(challenges, code)
      /\ loginCalls' = [loginCalls EXCEPT ![w] = Access!Idle]
      /\ UNCHANGED <<users, devices, registered, guesses, opened, phonesOverlapped>>
  BY <1>1, <1>3 DEF Access!SaveChallenge, Access!Enter
<1>5. /\ challenges \in Seq(Access!Challenge) /\ loginCalls[w] # Access!Idle /\ p \in Phones
      /\ guesses \in [1..MaxChallenges -> Nat] /\ opened \in [1..MaxChallenges -> Nat]
  BY <1>1, <1>4 DEF LoginInv, LoginsTyped, Access!Idle
<1>6. LoginMoves(w, Access!Idle)
  BY <1>4 DEF LoginMoves
<1>7. /\ loginCalls' = [o \in Workers |-> loginCalls'[o]] /\ loginCalls'[w] = Access!Idle
      /\ \A o \in Workers \ {w} : loginCalls'[o] = loginCalls[o]
      /\ \A o \in Workers : loginCalls'[o] # Access!Idle => loginCalls'[o].phone \in Phones
      /\ \A q \in Phones \ phonesOverlapped' : Alone(q) /\ Alone(q)'
  BY <1>6, CallMoves
<1>8. code \in Access!Challenge /\ n \in 1..MaxChallenges
  <2>1. loginCalls[w].purpose \in Access!Purposes
    BY <1>4 DEF LoginInv, CodesHeld
  <2>2. QED
    BY <1>2, <1>3, <1>4, <1>5, <2>1 DEF Access!Challenge
<1>9. /\ challenges' \in Seq(Access!Challenge) /\ Len(challenges') <= MaxChallenges
      /\ DOMAIN challenges' = DOMAIN challenges \cup {n} /\ n \notin DOMAIN challenges
      /\ challenges'[n] = code
      /\ \A c \in DOMAIN challenges : challenges'[c] = challenges[c]
  BY <1>2, <1>4, <1>5, <1>8, SMTT(30)
<1>10. LoginsTyped'
  BY <1>4, <1>7, <1>9 DEF LoginInv, LoginsTyped, Access!Idle
<1>11. UsersKnown' /\ \A q \in Phones \ phonesOverlapped' : DeviceSound(q)'
  BY <1>4, <1>6, UsersStay DEF Access!Idle
<1>12. CodesHeld'
  BY <1>7, <1>9 DEF LoginInv, CodesHeld, Access!Idle
<1>13. Untried'
  BY <1>4, <1>9 DEF LoginInv, Untried
<1>14. ASSUME NEW q \in Phones \ phonesOverlapped'
       PROVE  CodeSound(q)'
  <2>1. CodeSound(q)
    BY <1>4, <1>14 DEF LoginInv
  <2>2. guesses[n] = 0 /\ opened[n] = 0
    BY <1>8, <1>9 DEF LoginInv, Untried
  <2>3. ASSUME NEW c \in DOMAIN challenges', challenges'[c].phone = q
        PROVE  /\ guesses'[c] = challenges'[c].attempts
               /\ opened'[c] = IF challenges'[c].consumed THEN 1 ELSE 0
    <3>1. CASE c = n
      BY <1>3, <1>4, <1>9, <2>2, <3>1
    <3>2. CASE c # n
      BY <1>4, <1>9, <2>1, <2>3, <3>2 DEF CodeSound
    <3>3. QED
      BY <3>1, <3>2
  <2>4. ASSUME NEW o \in Workers, OnPhone(o, q)', loginCalls'[o].phase = "verifying"
        PROVE  /\ loginCalls'[o].entity.attempts = challenges'[loginCalls'[o].id].attempts + 1
               /\ ~challenges'[loginCalls'[o].id].consumed
    <3>1. o # w /\ loginCalls'[o] = loginCalls[o] /\ OnPhone(o, q)
      BY <1>7, <2>4 DEF OnPhone, Access!Idle
    <3>2. loginCalls[o].id \in DOMAIN challenges
      BY <2>4, <3>1 DEF LoginInv, CodesHeld
    <3>3. QED
      BY <1>9, <2>1, <2>4, <3>1, <3>2 DEF CodeSound
  <2>5. QED
    BY <2>3, <2>4 DEF CodeSound
<1>15. ASSUME NEW q \in Phones \ phonesOverlapped'
       PROVE  WindowSound(q)'
  <2>1. WindowSound(q) /\ Alone(q)
    BY <1>4, <1>15 DEF LoginInv
  <2>2. CASE q = p
    <3>1. Access!Recent(q)' = Access!Recent(q) \cup {n}
      BY <1>3, <1>9, <2>2 DEF Access!Recent
    <3>2. OnPhone(w, q)
      BY <1>1, <1>5, <2>2 DEF OnPhone
    <3>3. Cardinality(Access!Recent(q)) < MaxGuesses
      BY <1>4, <2>1, <3>2 DEF WindowSound
    <3>4. n \notin Access!Recent(q)
      BY <1>9 DEF Access!Recent
    <3>5. Cardinality(Access!Recent(q)') = Cardinality(Access!Recent(q)) + 1
      BY <1>5, <3>1, <3>4, RecentFinite, FS_AddElement
    <3>6. Cardinality(Access!Recent(q)') <= MaxGuesses
      BY <1>5, <3>3, <3>5, RecentFinite
    <3>7. \A o \in Workers : ~OnPhone(o, q)'
      BY <1>7, <2>1, <3>2 DEF OnPhone, Alone, Access!Idle
    <3>8. QED
      BY <3>6, <3>7 DEF WindowSound
  <2>3. CASE q # p
    <3>1. Access!Recent(q)' = Access!Recent(q)
      BY <1>3, <1>9, <2>3 DEF Access!Recent
    <3>2. QED
      BY <1>7, <2>1, <3>1 DEF WindowSound, OnPhone, Access!Idle
  <2>4. QED
    BY <2>2, <2>3
<1>16. QED
  BY <1>7, <1>10, <1>11, <1>12, <1>13, <1>14, <1>15 DEF LoginInv

LEMMA SavedCode ==
  ASSUME NEW code \in Access!Challenge, NEW entity \in Access!Challenge
  PROVE  LET saved == [code EXCEPT !.attempts = entity.attempts, !.consumed = entity.consumed]
         IN  /\ saved \in Access!Challenge /\ saved.phone = code.phone
             /\ saved.recent = code.recent
             /\ saved.attempts = entity.attempts /\ saved.consumed = entity.consumed
BY DEF Access!Challenge

LEMMA SaveVerifiedStep ==
  ASSUME LoginInv, NEW w \in Workers, Access!SaveVerified(w)
  PROVE  LoginInv'
<1>1. PICK c, entity, p : /\ c = loginCalls[w].id /\ entity = loginCalls[w].entity
                          /\ p = loginCalls[w].phone
  OBVIOUS
<1>2. PICK code : code = [challenges[c] EXCEPT !.attempts = entity.attempts,
                                               !.consumed = entity.consumed]
  OBVIOUS
<1>3. PICK call : call = IF entity.consumed
        THEN [phase |-> "entering", phone |-> entity.phone, purpose |-> entity.purpose]
        ELSE Access!Idle
  OBVIOUS
<1>4. /\ loginCalls[w].phase = "verifying"
      /\ challenges' = [challenges EXCEPT ![c] = code]
      /\ guesses' = [guesses EXCEPT ![c] = guesses[c] + 1]
      /\ opened' = IF entity.consumed THEN [opened EXCEPT ![c] = opened[c] + 1] ELSE opened
      /\ loginCalls' = [loginCalls EXCEPT ![w] = call]
      /\ UNCHANGED <<users, devices, registered, phonesOverlapped>>
  BY <1>1, <1>2, <1>3 DEF Access!SaveVerified, Access!Enter
<1>5. /\ challenges \in Seq(Access!Challenge) /\ Len(challenges) <= MaxChallenges
      /\ guesses \in [1..MaxChallenges -> Nat] /\ opened \in [1..MaxChallenges -> Nat]
      /\ loginCalls[w] # Access!Idle
      /\ c \in DOMAIN challenges /\ entity \in Access!Challenge
      /\ challenges[c].phone = p /\ entity.phone = p
  BY <1>1, <1>4 DEF LoginInv, LoginsTyped, CodesHeld, Access!Idle
<1>6. c \in 1..MaxChallenges /\ challenges[c] \in Access!Challenge
  BY <1>5
<1>7. /\ code \in Access!Challenge /\ code.phone = p /\ code.recent = challenges[c].recent
      /\ code.attempts = entity.attempts /\ code.consumed = entity.consumed
  BY <1>2, <1>5, <1>6, SavedCode
<1>8. /\ challenges' \in Seq(Access!Challenge) /\ Len(challenges') = Len(challenges)
      /\ DOMAIN challenges' = DOMAIN challenges /\ challenges'[c] = code
      /\ \A i \in DOMAIN challenges \ {c} : challenges'[i] = challenges[i]
  BY <1>4, <1>5, <1>7
<1>9. /\ guesses' \in [1..MaxChallenges -> Nat] /\ guesses'[c] = guesses[c] + 1
      /\ opened' \in [1..MaxChallenges -> Nat]
      /\ opened'[c] = IF entity.consumed THEN opened[c] + 1 ELSE opened[c]
      /\ \A i \in 1..MaxChallenges \ {c} : guesses'[i] = guesses[i] /\ opened'[i] = opened[i]
  BY <1>4, <1>5, <1>6
<1>10. LoginMoves(w, call)
  BY <1>1, <1>3, <1>4, <1>5 DEF LoginMoves, Access!Idle
<1>11. /\ loginCalls' = [o \in Workers |-> loginCalls'[o]] /\ loginCalls'[w] = call
       /\ \A o \in Workers \ {w} : loginCalls'[o] = loginCalls[o]
       /\ \A o \in Workers : loginCalls'[o] # Access!Idle => loginCalls'[o].phone \in Phones
       /\ \A q \in Phones \ phonesOverlapped' : Alone(q) /\ Alone(q)'
  BY <1>10, CallMoves
<1>12. call.phase \in {"entering", "idle"}
  BY <1>3 DEF Access!Idle
<1>13. LoginsTyped'
  BY <1>4, <1>5, <1>8, <1>9, <1>11 DEF LoginInv, LoginsTyped, Access!Idle
<1>14. UsersKnown' /\ \A q \in Phones \ phonesOverlapped' : DeviceSound(q)'
  BY <1>4, <1>10, <1>12, UsersStay
<1>15. CodesHeld'
  <2>1. \A i \in DOMAIN challenges : challenges'[i].phone = challenges[i].phone
    BY <1>5, <1>7, <1>8
  <2>2. QED
    BY <1>8, <1>11, <1>12, <2>1 DEF LoginInv, CodesHeld
<1>16. Untried'
  BY <1>5, <1>8, <1>9 DEF LoginInv, Untried
<1>17. ASSUME NEW q \in Phones \ phonesOverlapped'
       PROVE  CodeSound(q)'
  <2>1. CodeSound(q) /\ Alone(q)
    BY <1>4, <1>17 DEF LoginInv
  <2>2. CASE q = p
    <3>1. OnPhone(w, q)
      BY <1>1, <1>5, <2>2 DEF OnPhone
    <3>2. /\ entity.attempts = challenges[c].attempts + 1 /\ ~challenges[c].consumed
          /\ guesses[c] = challenges[c].attempts
          /\ opened[c] = IF challenges[c].consumed THEN 1 ELSE 0
      BY <1>1, <1>4, <1>5, <2>1, <2>2, <3>1 DEF CodeSound
    <3>3. opened[c] = 0
      BY <3>2
    <3>4. /\ guesses'[c] = challenges'[c].attempts
          /\ opened'[c] = IF challenges'[c].consumed THEN 1 ELSE 0
      BY <1>7, <1>8, <1>9, <3>2, <3>3
    <3>5. ASSUME NEW i \in DOMAIN challenges', challenges'[i].phone = q
          PROVE  /\ guesses'[i] = challenges'[i].attempts
                 /\ opened'[i] = IF challenges'[i].consumed THEN 1 ELSE 0
      <4>1. CASE i = c
        BY <3>4, <4>1
      <4>2. CASE i # c
        <5>1. i \in 1..MaxChallenges /\ i \in DOMAIN challenges
          BY <1>5, <1>8
        <5>2. QED
          BY <1>8, <1>9, <2>1, <3>5, <4>2, <5>1 DEF CodeSound
      <4>3. QED
        BY <4>1, <4>2
    <3>6. \A o \in Workers : OnPhone(o, q)' => loginCalls'[o].phase # "verifying"
      BY <1>11, <1>12, <2>1, <3>1 DEF OnPhone, Alone
    <3>7. QED
      BY <3>5, <3>6 DEF CodeSound
  <2>3. CASE q # p
    <3>1. ASSUME NEW i \in DOMAIN challenges', challenges'[i].phone = q
          PROVE  /\ guesses'[i] = challenges'[i].attempts
                 /\ opened'[i] = IF challenges'[i].consumed THEN 1 ELSE 0
      <4>1. i # c /\ i \in 1..MaxChallenges /\ i \in DOMAIN challenges
        BY <1>5, <1>7, <1>8, <2>3, <3>1
      <4>2. QED
        BY <1>8, <1>9, <2>1, <3>1, <4>1 DEF CodeSound
    <3>2. ASSUME NEW o \in Workers, OnPhone(o, q)', loginCalls'[o].phase = "verifying"
          PROVE  /\ loginCalls'[o].entity.attempts = challenges'[loginCalls'[o].id].attempts + 1
                 /\ ~challenges'[loginCalls'[o].id].consumed
      <4>1. loginCalls'[o] = loginCalls[o] /\ OnPhone(o, q)
        BY <1>11, <1>12, <3>2 DEF OnPhone
      <4>2. loginCalls[o].id \in DOMAIN challenges /\ challenges[loginCalls[o].id].phone = q
        BY <3>2, <4>1 DEF LoginInv, CodesHeld, OnPhone
      <4>3. challenges'[loginCalls[o].id] = challenges[loginCalls[o].id]
        BY <1>5, <1>8, <2>3, <4>2
      <4>4. QED
        BY <2>1, <3>2, <4>1, <4>3 DEF CodeSound
    <3>3. QED
      BY <3>1, <3>2 DEF CodeSound
  <2>4. QED
    BY <2>2, <2>3
<1>18. ASSUME NEW q \in Phones \ phonesOverlapped'
       PROVE  WindowSound(q)'
  <2>1. WindowSound(q)
    BY <1>4, <1>18 DEF LoginInv
  <2>2. \A i \in DOMAIN challenges : /\ challenges'[i].phone = challenges[i].phone
                                     /\ challenges'[i].recent = challenges[i].recent
    BY <1>5, <1>7, <1>8
  <2>3. Access!Recent(q)' = Access!Recent(q)
    BY <1>8, <2>2 DEF Access!Recent
  <2>4. QED
    BY <1>11, <1>12, <2>1, <2>3 DEF WindowSound, OnPhone
<1>19. QED
  BY <1>11, <1>13, <1>14, <1>15, <1>16, <1>17, <1>18 DEF LoginInv


LEMMA AgedCode ==
  ASSUME NEW code \in Access!Challenge, NEW aged,
         \/ aged = [code EXCEPT !.expired = TRUE]
         \/ aged = [code EXCEPT !.recent = FALSE]
  PROVE  /\ aged \in Access!Challenge /\ aged.phone = code.phone
         /\ aged.attempts = code.attempts /\ aged.consumed = code.consumed
         /\ aged.recent => code.recent
BY DEF Access!Challenge

\* Time passes: a code expires, or leaves the window.
LEMMA AgeStep ==
  ASSUME LoginInv, NEW c \in DOMAIN challenges, Access!ExpireCode(c) \/ Access!LeaveWindow(c)
  PROVE  LoginInv'
<1>1. challenges \in Seq(Access!Challenge) /\ challenges[c] \in Access!Challenge
  BY DEF LoginInv, LoginsTyped
<1>2. PICK aged : /\ challenges' = [challenges EXCEPT ![c] = aged]
                  /\ \/ aged = [challenges[c] EXCEPT !.expired = TRUE]
                     \/ aged = [challenges[c] EXCEPT !.recent = FALSE]
  BY DEF Access!ExpireCode, Access!LeaveWindow
<1>3. UNCHANGED <<users, devices, loginCalls, registered, guesses, opened, phonesOverlapped>>
  BY DEF Access!ExpireCode, Access!LeaveWindow
<1>4. /\ aged \in Access!Challenge /\ aged.phone = challenges[c].phone
      /\ aged.attempts = challenges[c].attempts /\ aged.consumed = challenges[c].consumed
      /\ aged.recent => challenges[c].recent
  BY <1>1, <1>2, AgedCode
<1>5. /\ challenges' \in Seq(Access!Challenge) /\ Len(challenges') = Len(challenges)
      /\ DOMAIN challenges' = DOMAIN challenges
      /\ \A i \in DOMAIN challenges :
           /\ challenges'[i].phone = challenges[i].phone
           /\ challenges'[i].attempts = challenges[i].attempts
           /\ challenges'[i].consumed = challenges[i].consumed
           /\ challenges'[i].recent => challenges[i].recent
  BY <1>1, <1>2, <1>4
<1>6. LoginsTyped' /\ CodesHeld' /\ Untried'
  BY <1>3, <1>5 DEF LoginInv, LoginsTyped, CodesHeld, Untried, Access!Idle
<1>7. UsersKnown'
  BY <1>3 DEF LoginInv, UsersKnown, Access!RegisteredOnce
<1>8. ASSUME NEW p \in Phones \ phonesOverlapped'
      PROVE  Alone(p)' /\ DeviceSound(p)' /\ CodeSound(p)' /\ WindowSound(p)'
  <2>1. Alone(p) /\ DeviceSound(p) /\ CodeSound(p) /\ WindowSound(p)
    BY <1>3, <1>8 DEF LoginInv
  <2>2. Alone(p)' /\ DeviceSound(p)'
    BY <1>3, <2>1 DEF Alone, DeviceSound, Active, OnPhone, Access!Idle
  <2>3. CodeSound(p)'
    <3>1. \A o \in Workers : loginCalls[o].phase = "verifying" =>
            loginCalls[o].id \in DOMAIN challenges
      BY DEF LoginInv, CodesHeld
    <3>2. QED
      BY <1>3, <1>5, <2>1, <3>1 DEF CodeSound, OnPhone, Access!Idle
  <2>4. WindowSound(p)'
    <3>1. Access!Recent(p)' \in SUBSET Access!Recent(p)
      BY <1>5 DEF Access!Recent
    <3>2. /\ IsFiniteSet(Access!Recent(p)') /\ Cardinality(Access!Recent(p)) \in Nat
          /\ Cardinality(Access!Recent(p)') <= Cardinality(Access!Recent(p))
      BY <1>1, <3>1, RecentFinite, FS_Subset
    <3>3. Cardinality(Access!Recent(p)') \in Nat
      BY <3>2, FS_CardinalityType
    <3>4. QED
      BY <1>3, <2>1, <3>2, <3>3 DEF WindowSound, OnPhone, Access!Idle
  <2>5. QED
    BY <2>1, <2>2, <2>3, <2>4
<1>9. QED
  BY <1>6, <1>7, <1>8 DEF LoginInv

\* A user is inserted for a phone that has none, by the phone's call.
LEMMA UserInserted ==
  ASSUME LoginInv, NEW w \in Workers, NEW p \in Phones, users[p] = "nobody",
         NEW role \in Access!Roles, users' = [users EXCEPT ![p] = role],
         \/ registered' = registered
         \/ (role = "passenger" /\ registered' = [registered EXCEPT ![p] = registered[p] + 1]),
         UNCHANGED <<challenges, devices, guesses, opened>>,
         loginCalls[w].phase \in {"registering", "provisioning"}, loginCalls[w].phone = p,
         NEW call, LoginMoves(w, call),
         \/ call = Access!Idle
         \/ call = [phase |-> "binding", phone |-> p]
  PROVE  LoginInv'
<1>1. /\ loginCalls' = [o \in Workers |-> loginCalls'[o]] /\ loginCalls'[w] = call
      /\ \A o \in Workers \ {w} : loginCalls'[o] = loginCalls[o]
      /\ \A o \in Workers : loginCalls'[o] # Access!Idle => loginCalls'[o].phone \in Phones
      /\ phonesOverlapped \subseteq phonesOverlapped'
      /\ \A q \in Phones \ phonesOverlapped' : Alone(q) /\ Alone(q)'
  BY CallMoves
<1>2. /\ users \in [Phones -> Access!Roles \cup {"nobody"}]
      /\ registered \in [Phones -> Nat] /\ registered[p] = 0
  BY DEF LoginInv, LoginsTyped, UsersKnown
<1>3. /\ users' \in [Phones -> Access!Roles \cup {"nobody"}] /\ users'[p] = role
      /\ role # "nobody" /\ \A q \in Phones \ {p} : users'[q] = users[q]
      /\ registered' \in [Phones -> Nat]
      /\ \A q \in Phones \ {p} : registered'[q] = registered[q]
      /\ registered'[p] = 0 \/ (registered'[p] = 1 /\ role = "passenger")
  BY <1>2 DEF Access!Roles
<1>4. LoginsTyped'
  BY <1>1, <1>3 DEF LoginInv, LoginsTyped, Access!Idle
<1>5. call.phase \in {"idle", "binding"}
  BY DEF Access!Idle
<1>6. UsersKnown'
  <2>1. \A q \in Phones : users[q] # "nobody" => users'[q] # "nobody"
    BY <1>3
  <2>2. \A o \in Workers : loginCalls'[o].phase \in {"binding", "deactivated"} =>
          users'[loginCalls'[o].phone] # "nobody"
    <3> SUFFICES ASSUME NEW o \in Workers, loginCalls'[o].phase \in {"binding", "deactivated"}
                 PROVE  users'[loginCalls'[o].phone] # "nobody"
      OBVIOUS
    <3>1. CASE o = w
      BY <1>1, <1>3, <1>5, <3>1 DEF Access!Idle
    <3>2. CASE o # w
      <4>1. loginCalls'[o] = loginCalls[o] /\ users[loginCalls[o].phone] # "nobody"
        BY <1>1, <3>2 DEF LoginInv, UsersKnown
      <4>2. loginCalls[o].phone \in Phones
        BY <4>1 DEF LoginInv, LoginsTyped, Access!Idle
      <4>3. QED
        BY <2>1, <4>1, <4>2
    <3>3. QED
      BY <3>1, <3>2
  <2>3. \A i \in DOMAIN devices' : users'[devices'[i].user] # "nobody"
    <3>1. \A i \in DOMAIN devices : devices[i].user \in Phones
      <4>1. \A i \in DOMAIN devices : devices[i] \in Access!Device
        BY DEF LoginInv, LoginsTyped
      <4>2. QED
        BY <4>1 DEF Access!Device
    <3>2. QED
      BY <2>1, <3>1 DEF LoginInv, UsersKnown
  <2>4. \A q \in Phones : users'[q] = "nobody" => registered'[q] = 0
    BY <1>3 DEF LoginInv, UsersKnown
  <2>5. Access!RegisteredOnce'
    BY <1>3 DEF LoginInv, UsersKnown, Access!RegisteredOnce
  <2>6. \A o \in Workers : loginCalls'[o].phase = "provisioning" =>
          loginCalls'[o].role \in Access!Roles
    BY <1>1, <1>5 DEF LoginInv, UsersKnown
  <2>7. QED
    BY <2>2, <2>3, <2>4, <2>5, <2>6 DEF UsersKnown
<1>7. ASSUME NEW q \in Phones \ phonesOverlapped'
      PROVE  DeviceSound(q)'
  <2>1. DeviceSound(q) /\ Alone(q)
    BY <1>1, <1>7 DEF LoginInv
  <2>2. CASE q = p
    <3>1. Active(q)' = {}
      BY <2>2 DEF Active, LoginInv, UsersKnown
    <3>2. QED
      BY <3>1 DEF DeviceSound
  <2>3. CASE q # p
    BY <1>1, <1>3, <1>5, <2>1, <2>3 DEF DeviceSound, Active, OnPhone, Access!Idle
  <2>4. QED
    BY <2>2, <2>3
<1>8. /\ CodesHeld' /\ Untried'
      /\ \A q \in Phones \ phonesOverlapped' : CodeSound(q)' /\ WindowSound(q)'
  BY <1>5, CodesStay
<1>9. QED
  BY <1>1, <1>4, <1>6, <1>7, <1>8 DEF LoginInv

\* The call changed nothing but itself, and is over.
LEMMA CallEnds ==
  ASSUME LoginInv, NEW w \in Workers, loginCalls[w] # Access!Idle,
         loginCalls' = [loginCalls EXCEPT ![w] = Access!Idle],
         UNCHANGED <<users, challenges, devices, registered, guesses, opened, phonesOverlapped>>
  PROVE  LoginInv'
BY OnlyCallsMove DEF Access!EndCall, Access!Enter

LEMMA InsertUserSteps ==
  ASSUME LoginInv, NEW w \in Workers, Access!RegisterPassenger(w) \/ Access!SaveProvisioned(w)
  PROVE  LoginInv'
<1>1. PICK p : p = loginCalls[w].phone
  OBVIOUS
<1>2. /\ loginCalls[w] # Access!Idle /\ p \in Phones
      /\ loginCalls[w].phase \in {"registering", "provisioning"}
      /\ UNCHANGED <<challenges, devices, guesses, opened, phonesOverlapped>>
  BY <1>1 DEF Access!RegisterPassenger, Access!SaveProvisioned, Access!Idle, LoginInv, LoginsTyped
<1>3. CASE users[p] # "nobody"
  <2>1. UNCHANGED <<users, registered>> /\ loginCalls' = [loginCalls EXCEPT ![w] = Access!Idle]
    BY <1>1, <1>3 DEF Access!RegisterPassenger, Access!SaveProvisioned, Access!Enter
  <2>2. QED
    BY <1>2, <2>1, CallEnds
<1>4. CASE users[p] = "nobody"
  <2>1. CASE Access!RegisterPassenger(w)
    <3>1. PICK call : call = [phase |-> "binding", phone |-> p]
      OBVIOUS
    <3>2. /\ users' = [users EXCEPT ![p] = "passenger"]
          /\ registered' = [registered EXCEPT ![p] = registered[p] + 1]
          /\ loginCalls' = [loginCalls EXCEPT ![w] = call]
      BY <1>1, <1>4, <2>1, <3>1 DEF Access!RegisterPassenger, Access!Enter
    <3>3. LoginMoves(w, call)
      BY <1>1, <1>2, <3>1, <3>2 DEF LoginMoves, Access!Idle
    <3>4. "passenger" \in Access!Roles
      BY DEF Access!Roles
    <3>5. QED
      BY <1>1, <1>2, <1>4, <3>1, <3>2, <3>3, <3>4, UserInserted
  <2>2. CASE Access!SaveProvisioned(w)
    <3>1. /\ users' = [users EXCEPT ![p] = loginCalls[w].role] /\ registered' = registered
          /\ loginCalls' = [loginCalls EXCEPT ![w] = Access!Idle]
          /\ loginCalls[w].phase = "provisioning"
      BY <1>1, <1>4, <2>2 DEF Access!SaveProvisioned, Access!Enter
    <3>2. LoginMoves(w, Access!Idle) /\ loginCalls[w].role \in Access!Roles
      BY <1>2, <3>1 DEF LoginMoves, LoginInv, UsersKnown
    <3>3. QED
      BY <1>1, <1>2, <1>4, <3>1, <3>2, UserInserted
  <2>3. QED
    BY <2>1, <2>2
<1>5. QED
  BY <1>3, <1>4


LEMMA DeactivateStep ==
  ASSUME LoginInv, NEW w \in Workers, Access!DeactivateDevices(w)
  PROVE  LoginInv'
<1>1. PICK p : p = loginCalls[w].phone
  OBVIOUS
<1>2. PICK call : call = [phase |-> "deactivated", phone |-> p]
  OBVIOUS
<1>3. /\ loginCalls[w].phase = "binding" /\ loginCalls[w] # Access!Idle
      /\ loginCalls' = [loginCalls EXCEPT ![w] = call]
      /\ devices' = [i \in DOMAIN devices |->
           IF users[p] = "driver" /\ devices[i].user = p
             THEN [devices[i] EXCEPT !.active = FALSE] ELSE devices[i]]
      /\ UNCHANGED <<users, challenges, registered, guesses, opened, phonesOverlapped>>
  BY <1>1, <1>2 DEF Access!DeactivateDevices, Access!Enter, Access!Idle
<1>4. devices \in Seq(Access!Device)
  BY DEF LoginInv, LoginsTyped
<1>5. ASSUME NEW i \in DOMAIN devices
      PROVE  /\ devices'[i] \in Access!Device /\ devices'[i].user = devices[i].user
             /\ devices'[i].active => devices[i].active
             /\ users[p] = "driver" /\ devices[i].user = p => ~devices'[i].active
  <2>1. devices[i] \in Access!Device
    BY <1>4
  <2>2. devices'[i] = IF users[p] = "driver" /\ devices[i].user = p
                        THEN [devices[i] EXCEPT !.active = FALSE] ELSE devices[i]
    BY <1>3
  <2>3. QED
    BY <2>1, <2>2 DEF Access!Device
<1>6. devices' \in Seq(Access!Device) /\ DOMAIN devices' = DOMAIN devices
  <2>1. DOMAIN devices = 1..Len(devices) /\ Len(devices) \in Nat
    BY <1>4
  <2>2. devices' \in [1..Len(devices) -> Access!Device]
    BY <1>3, <1>5, <2>1
  <2>3. QED
    BY <2>1, <2>2
<1>7. LoginMoves(w, call)
  BY <1>1, <1>2, <1>3 DEF LoginMoves, Access!Idle
<1>8. /\ loginCalls' = [o \in Workers |-> loginCalls'[o]] /\ loginCalls'[w] = call
      /\ \A o \in Workers \ {w} : loginCalls'[o] = loginCalls[o]
      /\ \A o \in Workers : loginCalls'[o] # Access!Idle => loginCalls'[o].phone \in Phones
      /\ \A q \in Phones \ phonesOverlapped' : Alone(q) /\ Alone(q)'
  BY <1>7, CallMoves
<1>9. LoginsTyped'
  BY <1>3, <1>6, <1>8 DEF LoginInv, LoginsTyped, Access!Idle
<1>10. UsersKnown'
  <2>1. users[p] # "nobody"
    BY <1>1, <1>3 DEF LoginInv, UsersKnown
  <2>2. \A i \in DOMAIN devices' : users[devices'[i].user] # "nobody"
    BY <1>5, <1>6 DEF LoginInv, UsersKnown
  <2>3. QED
    BY <1>2, <1>3, <1>8, <2>1, <2>2 DEF LoginInv, UsersKnown, Access!RegisteredOnce
<1>11. ASSUME NEW q \in Phones \ phonesOverlapped'
       PROVE  DeviceSound(q)'
  <2>1. DeviceSound(q) /\ Alone(q)
    BY <1>3, <1>11 DEF LoginInv
  <2>2. Active(q)' \subseteq Active(q)
    BY <1>5, <1>6 DEF Active
  <2>3. users[p] = "driver" => Active(p)' = {}
    BY <1>5, <1>6 DEF Active
  <2>4. CASE q = p
    BY <1>3, <2>1, <2>2, <2>3, <2>4 DEF DeviceSound
  <2>5. CASE q # p
    <3>1. \A o \in Workers : OnPhone(o, q)' => o # w /\ OnPhone(o, q) /\ loginCalls'[o] = loginCalls[o]
      BY <1>2, <1>8, <2>5 DEF OnPhone
    <3>2. QED
      BY <1>3, <2>1, <2>2, <3>1 DEF DeviceSound
  <2>6. QED
    BY <2>4, <2>5
<1>12. /\ CodesHeld' /\ Untried'
       /\ \A q \in Phones \ phonesOverlapped' : CodeSound(q)' /\ WindowSound(q)'
  BY <1>2, <1>3, <1>7, CodesStay
<1>13. QED
  BY <1>8, <1>9, <1>10, <1>11, <1>12 DEF LoginInv

LEMMA InsertDeviceStep ==
  ASSUME LoginInv, NEW w \in Workers, Access!InsertDevice(w)
  PROVE  LoginInv'
<1>1. PICK p : p = loginCalls[w].phone
  OBVIOUS
<1>2. PICK n : n = Len(devices) + 1
  OBVIOUS
<1>3. PICK device : device = [user |-> p, active |-> TRUE]
  OBVIOUS
<1>4. /\ loginCalls[w].phase = "deactivated" /\ loginCalls[w] # Access!Idle
      /\ loginCalls' = [loginCalls EXCEPT ![w] = Access!Idle]
      /\ devices' = Append(devices, device)
      /\ UNCHANGED <<users, challenges, registered, guesses, opened, phonesOverlapped>>
  BY <1>1, <1>3 DEF Access!InsertDevice, Access!Enter, Access!Idle
<1>5. devices \in Seq(Access!Device) /\ p \in Phones
  BY <1>1, <1>4 DEF LoginInv, LoginsTyped
<1>6. device \in Access!Device
  BY <1>3, <1>5 DEF Access!Device
<1>7. /\ devices' \in Seq(Access!Device) /\ DOMAIN devices' = DOMAIN devices \cup {n}
      /\ devices'[n] = device /\ \A i \in DOMAIN devices : devices'[i] = devices[i]
  BY <1>2, <1>4, <1>5, <1>6
<1>8. LoginMoves(w, Access!Idle)
  BY <1>4 DEF LoginMoves
<1>9. /\ loginCalls' = [o \in Workers |-> loginCalls'[o]] /\ loginCalls'[w] = Access!Idle
      /\ \A o \in Workers \ {w} : loginCalls'[o] = loginCalls[o]
      /\ \A o \in Workers : loginCalls'[o] # Access!Idle => loginCalls'[o].phone \in Phones
      /\ \A q \in Phones \ phonesOverlapped' : Alone(q) /\ Alone(q)'
  BY <1>8, CallMoves
<1>10. LoginsTyped'
  BY <1>4, <1>7, <1>9 DEF LoginInv, LoginsTyped, Access!Idle
<1>11. UsersKnown'
  <2>1. users[p] # "nobody"
    BY <1>1, <1>4 DEF LoginInv, UsersKnown
  <2>2. \A i \in DOMAIN devices' : users[devices'[i].user] # "nobody"
    BY <1>3, <1>7, <2>1 DEF LoginInv, UsersKnown
  <2>3. QED
    BY <1>4, <1>9, <2>2 DEF LoginInv, UsersKnown, Access!RegisteredOnce, Access!Idle
<1>12. ASSUME NEW q \in Phones \ phonesOverlapped'
       PROVE  DeviceSound(q)'
  <2>1. DeviceSound(q) /\ Alone(q)
    BY <1>4, <1>12 DEF LoginInv
  <2>2. CASE q = p
    <3>1. OnPhone(w, q)
      BY <1>1, <1>4, <2>2 DEF OnPhone
    <3>2. users[q] = "driver" => Active(q) = {}
      BY <1>4, <2>1, <3>1 DEF DeviceSound
    <3>3. Active(q)' \subseteq Active(q) \cup {n}
      BY <1>7 DEF Active
    <3>4. \A o \in Workers : ~OnPhone(o, q)'
      BY <1>9, <2>1, <3>1 DEF OnPhone, Alone, Access!Idle
    <3>5. QED
      BY <1>4, <3>2, <3>3, <3>4 DEF DeviceSound
  <2>3. CASE q # p
    <3>1. Active(q)' \subseteq Active(q)
      BY <1>3, <1>7, <2>3 DEF Active
    <3>2. \A o \in Workers : OnPhone(o, q)' => OnPhone(o, q) /\ loginCalls'[o] = loginCalls[o]
      BY <1>9 DEF OnPhone
    <3>3. QED
      BY <1>4, <2>1, <3>1, <3>2 DEF DeviceSound
  <2>4. QED
    BY <2>2, <2>3
<1>13. /\ CodesHeld' /\ Untried'
       /\ \A q \in Phones \ phonesOverlapped' : CodeSound(q)' /\ WindowSound(q)'
  BY <1>4, <1>8, CodesStay DEF Access!Idle
<1>14. QED
  BY <1>9, <1>10, <1>11, <1>12, <1>13 DEF LoginInv

-----------------------------------------------------------------------------
LEMMA LoginInit == Access!Init => LoginInv
<1> SUFFICES ASSUME Access!Init PROVE LoginInv
  OBVIOUS
<1>1. /\ challenges = <<>> /\ devices = <<>>
      /\ loginCalls = [w \in Workers |-> Access!Idle]
      /\ registered = [p \in Phones |-> 0]
      /\ guesses = [c \in 1..MaxChallenges |-> 0] /\ opened = guesses
      /\ users \in [Phones -> Access!Roles \cup {"nobody"}]
  BY DEF Access!Init, Access!Roles
<1>2. LoginsTyped /\ UsersKnown /\ CodesHeld /\ Untried
  BY <1>1 DEF LoginsTyped, UsersKnown, CodesHeld, Untried, Access!RegisteredOnce, Access!Idle
<1>3. ASSUME NEW p
      PROVE  Alone(p) /\ DeviceSound(p) /\ CodeSound(p) /\ WindowSound(p)
  <2>1. Access!Recent(p) = {}
    BY <1>1 DEF Access!Recent
  <2>2. QED
    BY <1>1, <2>1, FS_EmptySet DEF Alone, DeviceSound, CodeSound, WindowSound, OnPhone, Active
<1>4. QED
  BY <1>2, <1>3 DEF LoginInv

LEMMA LoginStep ==
  ASSUME LoginInv, Access!Next
  PROVE  LoginInv'
<1>1. CASE \E w \in Workers, p \in Phones, purpose \in Access!Purposes :
             \/ Access!RequestOtp(w, p, purpose)
             \/ \E right \in BOOLEAN : Access!VerifyOtp(w, p, purpose, right)
  BY <1>1, BeginCode
<1>2. CASE \E w \in Workers, p \in Phones, role \in {"passenger", "driver"} :
             Access!Provision(w, p, role)
  BY <1>2, OnlyCallsMove
<1>3. CASE \E w \in Workers :
             \/ Access!SaveChallenge(w) \/ Access!SaveVerified(w) \/ Access!FindUser(w)
             \/ Access!RegisterPassenger(w) \/ Access!SaveProvisioned(w)
             \/ Access!DeactivateDevices(w) \/ Access!InsertDevice(w) \/ Access!EndCall(w)
  BY <1>3, SaveChallengeStep, SaveVerifiedStep, OnlyCallsMove, InsertUserSteps,
     DeactivateStep, InsertDeviceStep
<1>4. CASE \E c \in DOMAIN challenges : Access!ExpireCode(c) \/ Access!LeaveWindow(c)
  BY <1>4, AgeStep
<1>5. QED
  BY <1>1, <1>2, <1>3, <1>4 DEF Access!Next

LEMMA LoginInvariant == Spec => []LoginInv
<1>1. Init => LoginInv
  BY LoginInit DEF Init
<1>2. ASSUME LoginInv, [Next]_vars
      PROVE  LoginInv'
  <2>1. Access!Next \/ UNCHANGED logins
    BY <1>2 DEF Next, vars
  <2>2. CASE UNCHANGED logins
    <3>1. LoginsTyped' /\ UsersKnown' /\ CodesHeld' /\ Untried'
      BY <1>2, <2>2 DEF logins, LoginInv, LoginsTyped, UsersKnown, CodesHeld, Untried,
         Access!RegisteredOnce
    <3>2. \A p : Access!Recent(p)' = Access!Recent(p) /\ Active(p)' = Active(p)
      BY <2>2 DEF logins, Access!Recent, Active
    <3>3. \A p \in Phones \ phonesOverlapped' :
            Alone(p)' /\ DeviceSound(p)' /\ CodeSound(p)' /\ WindowSound(p)'
      BY <1>2, <2>2, <3>2 DEF logins, LoginInv, Alone, DeviceSound, CodeSound, WindowSound, OnPhone
    <3>4. QED
      BY <3>1, <3>3 DEF LoginInv
  <2>3. QED
    BY <1>2, <2>1, <2>2, LoginStep
<1>3. QED
  BY <1>1, <1>2, PTL DEF Spec

\* A phone registers itself at most once, whatever overlaps; while the calls on it
\* do not, a driver has one active device (auth.service.ts verifyOtp,
\* registerPassenger, provisionUser, bindDevice).
THEOREM AccountsStaySound == Spec => []AccountsSound
<1>1. ASSUME LoginInv
      PROVE  AccountsSound
  <2>1. ASSUME NEW p \in Phones \ phonesOverlapped, users[p] = "driver"
        PROVE  Access!Cardinality(
                 {i \in DOMAIN devices : devices[i].user = p /\ devices[i].active}) <= 1
    <3>1. \A i, j \in Active(p) : i = j
      BY <1>1, <2>1 DEF LoginInv, DeviceSound
    <3>2. Cardinality(Active(p)) <= 1
      BY <3>1, AtMostOne
    <3>3. QED
      BY <3>2, SameCount DEF Active
  <2>2. QED
    BY <1>1, <2>1 DEF AccountsSound, Access!OneActiveDevice, LoginInv, UsersKnown
<1>2. QED
  BY <1>1, LoginInvariant, PTL

\* While the calls on a phone do not overlap, no more codes than the limit are sent
\* in a window, each is compared with at most MaxAttempts guesses and opens one
\* login (otp.service.ts request, verify).
THEOREM CodesStayBounded == Spec => []CodesBounded
<1>1. ASSUME LoginInv
      PROVE  CodesBounded
  <2>1. ASSUME NEW p \in Phones \ phonesOverlapped
        PROVE  /\ Access!Cardinality(Access!Recent(p)) <= MaxGuesses
               /\ \A c \in DOMAIN challenges : challenges[c].phone = p =>
                    guesses[c] <= MaxGuesses /\ opened[c] <= 1
    <3>1. CodeSound(p) /\ WindowSound(p)
      BY <1>1, <2>1 DEF LoginInv
    <3>2. \A c \in DOMAIN challenges : challenges[c] \in Access!Challenge
      BY <1>1 DEF LoginInv, LoginsTyped
    <3>3. \A c \in DOMAIN challenges : challenges[c].attempts <= MaxGuesses
      BY <3>2 DEF Access!Challenge
    <3>4. QED
      BY <3>1, <3>3, SameCount DEF CodeSound, WindowSound
  <2>2. QED
    BY <2>1 DEF CodesBounded, Access!CodesBounded
<1>2. QED
  BY <1>1, LoginInvariant, PTL


-----------------------------------------------------------------------------
(***************************************************************************)
(* The types of the two parts                                              *)
(***************************************************************************)
SessionsRest == familiesOverlapped \subseteq Sessions!Families /\ tokenFaults \in 0..MaxFaults

LEMMA SessionsRestStep ==
  ASSUME SessionInv, SessionsRest, Sessions!Next
  PROVE  SessionsRest'
<1>1. \A t \in DOMAIN tokens : tokens[t].family \in Sessions!Families
  <2>1. \A t \in DOMAIN tokens : tokens[t] \in Sessions!Token
    BY DEF SessionInv, TokensTyped
  <2>2. QED
    BY <2>1 DEF Sessions!Token
<1>2. CASE \E w \in Workers, t \in DOMAIN tokens : Sessions!RotateFind(w, t)
  BY <1>1, <1>2 DEF SessionsRest, Sessions!RotateFind
<1>3. CASE \E w \in Workers : Sessions!Stop(w)
  BY <1>3, ProfileAssumption DEF SessionsRest, Sessions!Stop
<1>4. CASE \/ \E w \in Workers : \/ Sessions!IssuePair(w) \/ Sessions!RotateRevoke(w)
                                 \/ Sessions!RevokeFamily(w) \/ Sessions!Mint(w)
           \/ \E t \in DOMAIN tokens : Sessions!Logout(t) \/ Sessions!Expire(t)
  BY <1>4 DEF SessionsRest, Sessions!IssuePair, Sessions!RotateRevoke, Sessions!RevokeFamily,
     Sessions!Mint, Sessions!Logout, Sessions!Expire
<1>5. QED
  BY <1>2, <1>3, <1>4 DEF Sessions!Next

LEMMA SessionsType == Spec => []Sessions!TypeOK
<1>1. Init => SessionsRest
  BY ProfileAssumption DEF Init, Sessions!Init, SessionsRest
<1>2. SessionInv /\ SessionsRest /\ [Next]_vars => SessionsRest'
  <2> SUFFICES ASSUME SessionInv, SessionsRest, [Next]_vars
               PROVE  SessionsRest'
    OBVIOUS
  <2>1. Sessions!Next \/ UNCHANGED sessions
    BY DEF Next, vars
  <2>2. QED
    BY <2>1, SessionsRestStep DEF sessions, SessionsRest
<1>3. SessionInv /\ SessionsRest => Sessions!TypeOK
  BY DEF SessionInv, TokensTyped, SessionsRest, Sessions!TypeOK
<1>4. QED
  BY <1>1, <1>2, <1>3, SessionInvariant, PTL DEF Spec

\* A call of a login, by its next step; what it has found of a code or a user is
\* part of LoginInv.
LoginShape(call) ==
  \/ call = Access!Idle
  \/ call.phase \in {"verifying", "counted", "registering", "binding", "deactivated",
                     "provisioning"}
  \/ call.phase = "entering" /\ call.purpose \in Access!Purposes

LoginsRest ==
  /\ Len(devices) <= MaxDevices /\ phonesOverlapped \subseteq Phones
  /\ \A w \in Workers : LoginShape(loginCalls[w])

\* The call of worker w takes a shape, and at most the devices change with it.
LEMMA LoginShapes ==
  ASSUME LoginInv, LoginsRest, NEW w \in Workers, NEW call, LoginShape(call),
         loginCalls' = [loginCalls EXCEPT ![w] = call],
         Len(devices') <= MaxDevices, phonesOverlapped' \subseteq Phones
  PROVE  LoginsRest'
<1>1. \A o \in Workers : loginCalls'[o] = IF o = w THEN call ELSE loginCalls[o]
  BY DEF LoginInv, LoginsTyped
<1>2. QED
  BY <1>1 DEF LoginsRest

LEMMA LoginsRestStep ==
  ASSUME LoginInv, LoginsRest, Access!Next
  PROVE  LoginsRest'
<1> DEFINE starting == {"counted", "verifying", "provisioning"}
<1>1. ASSUME NEW w \in Workers, NEW call, call.phone \in Phones, call.phase \in starting,
             Access!Begin(w, call), UNCHANGED devices
      PROVE  LoginsRest'
  <2>1. LoginShape(call)
    BY <1>1 DEF LoginShape
  <2>2. phonesOverlapped' \subseteq Phones
    BY <1>1 DEF Access!Begin, LoginsRest
  <2>3. QED
    BY <1>1, <2>1, <2>2, LoginShapes DEF Access!Begin, Access!Enter, LoginsRest
<1>2. CASE \E w \in Workers, p \in Phones, purpose \in Access!Purposes :
             \/ Access!RequestOtp(w, p, purpose)
             \/ \E right \in BOOLEAN : Access!VerifyOtp(w, p, purpose, right)
  BY <1>1, <1>2 DEF Access!RequestOtp, Access!VerifyOtp
<1>3. CASE \E w \in Workers, p \in Phones, role \in {"passenger", "driver"} :
             Access!Provision(w, p, role)
  BY <1>1, <1>3 DEF Access!Provision
<1>4. ASSUME NEW w \in Workers, NEW call, LoginShape(call), Access!Enter(w, call),
             Len(devices') <= MaxDevices, UNCHANGED phonesOverlapped
      PROVE  LoginsRest'
  BY <1>4, LoginShapes DEF Access!Enter, LoginsRest
<1>5. LoginShape(Access!Idle)
  BY DEF LoginShape
<1>6. \A w, p : LoginShape([phase |-> "binding", phone |-> p]) /\ LoginShape([phase |-> "registering", phone |-> p])
        /\ LoginShape([phase |-> "deactivated", phone |-> p])
  BY DEF LoginShape
<1>7. Len(devices) <= MaxDevices /\ Len(devices) \in Nat
  BY DEF LoginsRest, LoginInv, LoginsTyped
<1>8. ASSUME NEW w \in Workers
      PROVE  /\ Access!SaveChallenge(w) => LoginsRest'
             /\ Access!SaveVerified(w) => LoginsRest'
             /\ Access!FindUser(w) => LoginsRest'
             /\ Access!RegisterPassenger(w) => LoginsRest'
             /\ Access!SaveProvisioned(w) => LoginsRest'
             /\ Access!EndCall(w) => LoginsRest'
  <2>1. Access!SaveChallenge(w) \/ Access!SaveProvisioned(w) \/ Access!EndCall(w) => LoginsRest'
    BY <1>4, <1>5, <1>7 DEF Access!SaveChallenge, Access!SaveProvisioned, Access!EndCall
  <2>2. ASSUME Access!SaveVerified(w)
        PROVE  LoginsRest'
    <3>1. loginCalls[w].phase = "verifying"
      BY <2>2 DEF Access!SaveVerified
    <3>2. loginCalls[w].entity \in Access!Challenge
      BY <3>1 DEF LoginInv, CodesHeld
    <3> DEFINE entity == loginCalls[w].entity
    <3>3. LoginShape([phase |-> "entering", phone |-> entity.phone, purpose |-> entity.purpose])
      BY <3>2 DEF LoginShape, Access!Challenge
    <3>4. QED
      BY <2>2, <3>3, <1>4, <1>5, <1>7 DEF Access!SaveVerified
  <2>3. Access!FindUser(w) \/ Access!RegisterPassenger(w) => LoginsRest'
    BY <1>4, <1>5, <1>6, <1>7 DEF Access!FindUser, Access!RegisterPassenger
  <2>4. QED
    BY <2>1, <2>2, <2>3
<1>9. ASSUME NEW w \in Workers, Access!DeactivateDevices(w)
      PROVE  LoginsRest'
  <2>1. Len(devices') = Len(devices)
    BY <1>9 DEF Access!DeactivateDevices, LoginInv, LoginsTyped
  <2>2. QED
    BY <1>9, <2>1, <1>4, <1>6, <1>7 DEF Access!DeactivateDevices
<1>10. ASSUME NEW w \in Workers, Access!InsertDevice(w)
       PROVE  LoginsRest'
  <2>1. Len(devices') = Len(devices) + 1
    BY <1>10 DEF Access!InsertDevice, LoginInv, LoginsTyped
  <2>2. QED
    BY <1>10, <2>1, <1>4, <1>5, <1>7 DEF Access!InsertDevice
<1>11. CASE \E c \in DOMAIN challenges : Access!ExpireCode(c) \/ Access!LeaveWindow(c)
  BY <1>11 DEF Access!ExpireCode, Access!LeaveWindow, LoginsRest
<1>12. QED
  BY <1>2, <1>3, <1>8, <1>9, <1>10, <1>11 DEF Access!Next

LEMMA LoginsType == Spec => []Access!TypeOK
<1>1. Init => LoginsRest
  BY AccessAssumption DEF Init, Access!Init, LoginsRest, LoginShape
<1>2. LoginInv /\ LoginsRest /\ [Next]_vars => LoginsRest'
  <2> SUFFICES ASSUME LoginInv, LoginsRest, [Next]_vars
               PROVE  LoginsRest'
    OBVIOUS
  <2>1. Access!Next \/ UNCHANGED logins
    BY DEF Next, vars
  <2>2. QED
    BY <2>1, LoginsRestStep DEF logins, LoginsRest
<1>3. LoginInv /\ LoginsRest => Access!TypeOK
  <2> SUFFICES ASSUME LoginInv, LoginsRest
               PROVE  Access!TypeOK
    OBVIOUS
  <2>1. ASSUME NEW w \in Workers
        PROVE  \/ loginCalls[w] = Access!Idle
               \/ /\ loginCalls[w].phase = "verifying"
                  /\ loginCalls[w].entity \in Access!Challenge
                  /\ loginCalls[w].id \in DOMAIN challenges
               \/ /\ loginCalls[w].phase \in {"counted", "entering"}
                  /\ loginCalls[w].purpose \in Access!Purposes
               \/ loginCalls[w].phase \in {"registering", "binding", "deactivated"}
               \/ loginCalls[w].phase = "provisioning" /\ loginCalls[w].role \in Access!Roles
    BY DEF LoginInv, UsersKnown, CodesHeld, LoginsRest, LoginShape
  <2>2. QED
    BY <2>1 DEF LoginInv, LoginsTyped, LoginsRest, Access!TypeOK
<1>4. QED
  BY <1>1, <1>2, <1>3, LoginInvariant, PTL DEF Spec

=============================================================================
