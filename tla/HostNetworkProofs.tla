-------------------------- MODULE HostNetworkProofs --------------------------
(***************************************************************************)
(* Theorems about HostNetwork for every set of containers and any number   *)
(* of rules, through faults, kills, reboots and deleted bridges.           *)
(***************************************************************************)
EXTENDS HostNetwork, TLAPS

(* The launches between adding the bridge and the last rule.               *)
Owning == {"added", "addressed", "checking", "appending"}

(* Adding the bridge lets one launch through, which knows how far it is.   *)
OwnerInv ==
    /\ \A c, d \in Containers : stage[c] \in Owning /\ stage[d] \in Owning => c = d
    /\ \A c \in Containers :
          /\ stage[c] = "added" => bridge = "added"
          /\ stage[c] = "addressed" => bridge = "addressed"
          /\ stage[c] \in {"checking", "appending"} => bridge = "up"

(* Its rules: those before "at" are there, and the one it is about to append
   is still missing.                                                       *)
RulesInv ==
    /\ \A r \in Rules : rules[r] <= 1
    /\ \A c \in Containers :
          /\ stage[c] \in {"starting", "adding", "added", "addressed"} => at[c] = 1
          /\ stage[c] \in {"checking", "appending"} => \A r \in Rules : r < at[c] => rules[r] > 0
          /\ stage[c] = "appending" => at[c] \in Rules /\ rules[at[c]] = 0

(* A bridge nobody is setting up is complete, if no set-up broke off.      *)
CompleteInv ==
    /\ ~broken /\ (\A c \in Containers : stage[c] \notin Owning) =>
          bridge = "none" \/ (bridge = "up" /\ \A r \in Rules : rules[r] > 0)
    /\ \A c \in Containers : master[c] => bridge # "none"

(* How far the veth pair of a launch is that met no fault and no namesake:
   until it has a pair, nobody has one of that name or is about to.        *)
VethInv ==
    \A c \in Containers : ~mishap[c] =>
        /\ stage[c] \in {"ready"} \cup Attaching => bridge # "none"
        /\ Early(c) => ~Taken(c) /\ \A d \in Namesakes(c) : Early(d) => d = c
        /\ stage[c] \in {"plugged", "opened"} => master[c]
        /\ stage[c] = "attached" /\ (alive[c] \/ inner[c] = "held") =>
              veth[c] = "netns" /\ master[c] /\ inner[c] # "none"
        /\ stage[c] = "unattached" => ~alive[c]
        /\ stage[c] # "lost"

(* A launch that is past adding its pair has it; a thread is at work only for
   a container whose supervisor is through.                                *)
ThreadInv ==
    \A c \in Containers :
        /\ stage[c] \in {"paired", "plugged", "opened"} => veth[c] = "host"
        /\ inner[c] = "held" => stage[c] = "attached"

Inv == TypeOK /\ OwnerInv /\ RulesInv /\ CompleteInv /\ VethInv /\ ThreadInv

LEMMA InitInv == Init => Inv
<1>. SUFFICES ASSUME Init PROVE Inv
  OBVIOUS
<1>. USE NumRulesIsPositive DEF Init, SettingUp, Attaching
<1>1. TypeOK
  <2>1. 1 \in 1..(NumRules + 1)
    OBVIOUS
  <2>. QED
    BY <2>1 DEF TypeOK, Rules, Stages
<1>2. OwnerInv
  BY DEF OwnerInv, Owning
<1>3. RulesInv
  BY DEF RulesInv, Rules
<1>4. CompleteInv
  BY DEF CompleteInv
<1>5. VethInv /\ ThreadInv
  BY DEF VethInv, ThreadInv, Early
<1>. QED
  BY <1>1, <1>2, <1>3, <1>4, <1>5 DEF Inv

-----------------------------------------------------------------------------
LEMMA NextInv == Inv /\ [Next]_vars => Inv'
<1>. SUFFICES ASSUME Inv, [Next]_vars PROVE Inv'
  OBVIOUS
<1>. USE NumRulesIsPositive
       DEF Inv, TypeOK, Rules, Stages, SettingUp, Attaching, host, ends, container, history, To
<1>1. ASSUME NEW c \in Containers, Launch(c) PROVE Inv'
  <2>0. 1 \in 1..(NumRules + 1)
    OBVIOUS
  <2>1. TypeOK'
    BY <1>1, <2>0 DEF Launch
  <2>2. OwnerInv'
    BY <1>1 DEF Launch, OwnerInv, CompleteInv, Owning
  <2>3. RulesInv'
    BY <1>1 DEF Launch, RulesInv, OwnerInv, Owning
  <2>4. CompleteInv'
    BY <1>1 DEF Launch, CompleteInv, OwnerInv, RulesInv, Owning
  <2>5. VethInv'
    <3>1. \A d \in Containers : Early(d)' => d = c \/ Early(d)
      BY <1>1 DEF Launch, Early
    <3>2. /\ ~mishap'[c] => ~Taken(c) /\ \A e \in Namesakes(c) : ~Early(e)
          /\ \A d \in Containers : ~mishap'[d] => d = c \/ ~mishap[d]
          /\ \A d \in Containers \ {c} : ~mishap'[d] => ~(d \in Namesakes(c) /\ Early(d))
      BY <1>1 DEF Launch
    <3>3. ASSUME NEW d \in Containers, ~mishap'[d], Early(d)'
          PROVE ~Taken(d) /\ \A e \in Containers : Early(e)' /\ NameOf[e] = NameOf[d] => e = d
      <4>1. CASE d = c
        BY <4>1, <3>1, <3>2, <3>3 DEF Namesakes, Early
      <4>2. CASE d # c
        <5>1. Early(d)
          BY <4>2, <3>1, <3>3 DEF Early
        <5>2. ~mishap[d]
          BY <4>2, <3>2, <3>3
        <5>3. NameOf[d] # NameOf[c]
          BY <4>2, <3>2, <3>3, <5>1 DEF Namesakes
        <5>4. ~Taken(d) /\ \A e \in Namesakes(d) : Early(e) => e = d
          BY <5>1, <5>2 DEF VethInv
        <5>. QED
          BY <5>3, <5>4, <3>1 DEF Namesakes, Early
      <4>. QED
        BY <4>1, <4>2
    <3>4. \A d \in Containers : d # c => stage'[d] = stage[d]
      BY <1>1 DEF Launch
    <3>5. stage'[c] = "starting"
      BY <1>1 DEF Launch
    <3>6. UNCHANGED <<bridge, veth, master, inner, alive>>
      BY <1>1 DEF Launch
    <3>. QED
      BY <3>2, <3>3, <3>4, <3>5, <3>6 DEF VethInv, ThreadInv, Namesakes, Early, Taken
  <2>6. ThreadInv'
    BY <1>1 DEF Launch, ThreadInv
  <2>. QED
    BY <2>1, <2>2, <2>3, <2>4, <2>5, <2>6
<1>2. ASSUME NEW c \in Containers, FindBridge(c) PROVE Inv'
  <2>1. TypeOK'
    BY <1>2 DEF FindBridge
  <2>2. OwnerInv'
    BY <1>2 DEF FindBridge, OwnerInv, CompleteInv, Owning
  <2>3. RulesInv'
    BY <1>2 DEF FindBridge, RulesInv, OwnerInv, Owning
  <2>4. CompleteInv'
    BY <1>2 DEF FindBridge, CompleteInv, OwnerInv, RulesInv, Owning
  <2>5. VethInv'
    BY <1>2 DEF FindBridge, VethInv, ThreadInv, OwnerInv, Early, Taken, Namesakes
  <2>6. ThreadInv'
    BY <1>2 DEF FindBridge, ThreadInv
  <2>. QED
    BY <2>1, <2>2, <2>3, <2>4, <2>5, <2>6
<1>3. ASSUME NEW c \in Containers, AddBridge(c) PROVE Inv'
  <2>1. TypeOK'
    BY <1>3 DEF AddBridge
  <2>2. OwnerInv'
    BY <1>3 DEF AddBridge, OwnerInv, CompleteInv, Owning
  <2>3. RulesInv'
    BY <1>3 DEF AddBridge, RulesInv, OwnerInv, Owning
  <2>4. CompleteInv'
    BY <1>3 DEF AddBridge, CompleteInv, OwnerInv, RulesInv, Owning
  <2>5. VethInv'
    BY <1>3 DEF AddBridge, VethInv, ThreadInv, OwnerInv, Early, Taken, Namesakes
  <2>6. ThreadInv'
    BY <1>3 DEF AddBridge, ThreadInv
  <2>. QED
    BY <2>1, <2>2, <2>3, <2>4, <2>5, <2>6
<1>4. ASSUME NEW c \in Containers, AddAddress(c) PROVE Inv'
  <2>1. TypeOK'
    BY <1>4 DEF AddAddress
  <2>2. OwnerInv'
    BY <1>4 DEF AddAddress, OwnerInv, CompleteInv, Owning
  <2>3. RulesInv'
    BY <1>4 DEF AddAddress, RulesInv, OwnerInv, Owning
  <2>4. CompleteInv'
    BY <1>4 DEF AddAddress, CompleteInv, OwnerInv, RulesInv, Owning
  <2>5. VethInv'
    BY <1>4 DEF AddAddress, VethInv, ThreadInv, OwnerInv, Early, Taken, Namesakes
  <2>6. ThreadInv'
    BY <1>4 DEF AddAddress, ThreadInv
  <2>. QED
    BY <2>1, <2>2, <2>3, <2>4, <2>5, <2>6
<1>5. ASSUME NEW c \in Containers, SetUp(c) PROVE Inv'
  <2>1. TypeOK'
    BY <1>5 DEF SetUp
  <2>2. OwnerInv'
    BY <1>5 DEF SetUp, OwnerInv, CompleteInv, Owning
  <2>3. RulesInv'
    BY <1>5 DEF SetUp, RulesInv, OwnerInv, Owning
  <2>4. CompleteInv'
    BY <1>5 DEF SetUp, CompleteInv, OwnerInv, RulesInv, Owning
  <2>5. VethInv'
    BY <1>5 DEF SetUp, VethInv, ThreadInv, OwnerInv, Early, Taken, Namesakes
  <2>6. ThreadInv'
    BY <1>5 DEF SetUp, ThreadInv
  <2>. QED
    BY <2>1, <2>2, <2>3, <2>4, <2>5, <2>6
<1>6. ASSUME NEW c \in Containers, CheckRule(c) PROVE Inv'
  <2>0. /\ at[c] \in Nat /\ at[c] \in 1..NumRules
        /\ at[c] + 1 \in 1..(NumRules + 1)
    BY <1>6 DEF CheckRule, RulesInv
  <2>1. TypeOK'
    BY <1>6, <2>0 DEF CheckRule
  <2>2. OwnerInv'
    BY <1>6 DEF CheckRule, OwnerInv, CompleteInv, Owning
  <2>3. RulesInv'
    BY <1>6 DEF CheckRule, RulesInv, OwnerInv, Owning
  <2>4. CompleteInv'
    BY <1>6 DEF CheckRule, CompleteInv, OwnerInv, RulesInv, Owning
  <2>5. VethInv'
    BY <1>6 DEF CheckRule, VethInv, ThreadInv, OwnerInv, Early, Taken, Namesakes
  <2>6. ThreadInv'
    BY <1>6 DEF CheckRule, ThreadInv
  <2>. QED
    BY <2>1, <2>2, <2>3, <2>4, <2>5, <2>6
<1>7. ASSUME NEW c \in Containers, AppendRule(c) PROVE Inv'
  <2>0. /\ at[c] \in Nat /\ at[c] \in 1..NumRules
        /\ at[c] + 1 \in 1..(NumRules + 1)
    BY <1>7 DEF AppendRule, RulesInv
  <2>1. TypeOK'
    BY <1>7, <2>0 DEF AppendRule
  <2>2. OwnerInv'
    BY <1>7 DEF AppendRule, OwnerInv, CompleteInv, Owning
  <2>3. RulesInv'
    BY <1>7 DEF AppendRule, RulesInv, OwnerInv, Owning
  <2>4. CompleteInv'
    BY <1>7 DEF AppendRule, CompleteInv, OwnerInv, RulesInv, Owning
  <2>5. VethInv'
    BY <1>7 DEF AppendRule, VethInv, ThreadInv, OwnerInv, Early, Taken, Namesakes
  <2>6. ThreadInv'
    BY <1>7 DEF AppendRule, ThreadInv
  <2>. QED
    BY <2>1, <2>2, <2>3, <2>4, <2>5, <2>6
<1>8. ASSUME NEW c \in Containers, RulesDone(c) PROVE Inv'
  <2>0. 1 \in 1..(NumRules + 1)
    OBVIOUS
  <2>1. TypeOK'
    BY <1>8, <2>0 DEF RulesDone
  <2>2. OwnerInv'
    BY <1>8 DEF RulesDone, OwnerInv, CompleteInv, Owning
  <2>3. RulesInv'
    BY <1>8 DEF RulesDone, RulesInv, OwnerInv, Owning
  <2>4. CompleteInv'
    BY <1>8 DEF RulesDone, CompleteInv, OwnerInv, RulesInv, Owning
  <2>5. VethInv'
    BY <1>8 DEF RulesDone, VethInv, ThreadInv, OwnerInv, Early, Taken, Namesakes
  <2>6. ThreadInv'
    BY <1>8 DEF RulesDone, ThreadInv
  <2>. QED
    BY <2>1, <2>2, <2>3, <2>4, <2>5, <2>6
<1>9. ASSUME NEW c \in Containers, Clone(c) PROVE Inv'
  <2>1. TypeOK'
    BY <1>9 DEF Clone
  <2>2. OwnerInv'
    BY <1>9 DEF Clone, OwnerInv, CompleteInv, Owning
  <2>3. RulesInv'
    BY <1>9 DEF Clone, RulesInv, OwnerInv, Owning
  <2>4. CompleteInv'
    BY <1>9 DEF Clone, CompleteInv, OwnerInv, RulesInv, Owning
  <2>5. VethInv'
    BY <1>9 DEF Clone, VethInv, ThreadInv, OwnerInv, Early, Taken, Namesakes
  <2>6. ThreadInv'
    BY <1>9 DEF Clone, ThreadInv
  <2>. QED
    BY <2>1, <2>2, <2>3, <2>4, <2>5, <2>6
<1>10. ASSUME NEW c \in Containers, FindNetns(c) PROVE Inv'
  <2>1. TypeOK'
    BY <1>10 DEF FindNetns
  <2>2. OwnerInv'
    BY <1>10 DEF FindNetns, OwnerInv, CompleteInv, Owning
  <2>3. RulesInv'
    BY <1>10 DEF FindNetns, RulesInv, OwnerInv, Owning
  <2>4. CompleteInv'
    BY <1>10 DEF FindNetns, CompleteInv, OwnerInv, RulesInv, Owning
  <2>5. VethInv'
    BY <1>10 DEF FindNetns, VethInv, ThreadInv, OwnerInv, Early, Taken, Namesakes
  <2>6. ThreadInv'
    BY <1>10 DEF FindNetns, ThreadInv
  <2>. QED
    BY <2>1, <2>2, <2>3, <2>4, <2>5, <2>6
<1>11. ASSUME NEW c \in Containers, AddVeth(c) PROVE Inv'
  <2>1. TypeOK'
    BY <1>11 DEF AddVeth
  <2>2. OwnerInv'
    BY <1>11 DEF AddVeth, OwnerInv, CompleteInv, Owning
  <2>3. RulesInv'
    BY <1>11 DEF AddVeth, RulesInv, OwnerInv, Owning
  <2>4. CompleteInv'
    BY <1>11 DEF AddVeth, CompleteInv, OwnerInv, RulesInv, Owning
  <2>5. VethInv'
    BY <1>11 DEF AddVeth, VethInv, ThreadInv, OwnerInv, Early, Taken, Namesakes
  <2>6. ThreadInv'
    BY <1>11 DEF AddVeth, ThreadInv
  <2>. QED
    BY <2>1, <2>2, <2>3, <2>4, <2>5, <2>6
<1>12. ASSUME NEW c \in Containers, PlugIn(c) PROVE Inv'
  <2>1. TypeOK'
    BY <1>12 DEF PlugIn
  <2>2. OwnerInv'
    BY <1>12 DEF PlugIn, OwnerInv, CompleteInv, Owning
  <2>3. RulesInv'
    BY <1>12 DEF PlugIn, RulesInv, OwnerInv, Owning
  <2>4. CompleteInv'
    BY <1>12 DEF PlugIn, CompleteInv, OwnerInv, RulesInv, Owning
  <2>5. VethInv'
    BY <1>12 DEF PlugIn, VethInv, ThreadInv, OwnerInv, Early, Taken, Namesakes
  <2>6. ThreadInv'
    BY <1>12 DEF PlugIn, ThreadInv
  <2>. QED
    BY <2>1, <2>2, <2>3, <2>4, <2>5, <2>6
<1>13. ASSUME NEW c \in Containers, OpenNetns(c) PROVE Inv'
  <2>1. TypeOK'
    BY <1>13 DEF OpenNetns
  <2>2. OwnerInv'
    BY <1>13 DEF OpenNetns, OwnerInv, CompleteInv, Owning
  <2>3. RulesInv'
    BY <1>13 DEF OpenNetns, RulesInv, OwnerInv, Owning
  <2>4. CompleteInv'
    BY <1>13 DEF OpenNetns, CompleteInv, OwnerInv, RulesInv, Owning
  <2>5. VethInv'
    BY <1>13 DEF OpenNetns, VethInv, ThreadInv, OwnerInv, Early, Taken, Namesakes
  <2>6. ThreadInv'
    BY <1>13 DEF OpenNetns, ThreadInv
  <2>. QED
    BY <2>1, <2>2, <2>3, <2>4, <2>5, <2>6
<1>14. ASSUME NEW c \in Containers, MoveInnerEnd(c) PROVE Inv'
  <2>1. TypeOK'
    BY <1>14 DEF MoveInnerEnd
  <2>2. OwnerInv'
    BY <1>14 DEF MoveInnerEnd, OwnerInv, CompleteInv, Owning
  <2>3. RulesInv'
    BY <1>14 DEF MoveInnerEnd, RulesInv, OwnerInv, Owning
  <2>4. CompleteInv'
    BY <1>14 DEF MoveInnerEnd, CompleteInv, OwnerInv, RulesInv, Owning
  <2>5. VethInv'
    <3>1. veth[c] = "host" /\ (~mishap[c] => master[c] /\ bridge # "none")
      BY <1>14 DEF MoveInnerEnd, VethInv, ThreadInv
    <3>2. \A e \in Containers : veth'[e] # "none" => veth[e] # "none"
      BY <1>14, <3>1 DEF MoveInnerEnd
    <3>. QED
      BY <1>14, <3>1, <3>2 DEF MoveInnerEnd, VethInv, Namesakes, Early, Taken
  <2>6. ThreadInv'
    BY <1>14 DEF MoveInnerEnd, ThreadInv
  <2>. QED
    BY <2>1, <2>2, <2>3, <2>4, <2>5, <2>6
<1>15. ASSUME NEW c \in Containers, Configure(c) PROVE Inv'
  <2>1. TypeOK'
    BY <1>15 DEF Configure, LetGo, Unheld
  <2>2. OwnerInv'
    BY <1>15 DEF Configure, LetGo, Unheld, OwnerInv, CompleteInv, Owning
  <2>3. RulesInv'
    BY <1>15 DEF Configure, LetGo, Unheld, RulesInv, OwnerInv, Owning
  <2>4. CompleteInv'
    BY <1>15 DEF Configure, LetGo, Unheld, CompleteInv, OwnerInv, RulesInv, Owning
  <2>5. VethInv'
    BY <1>15 DEF Configure, LetGo, Unheld, VethInv, ThreadInv, OwnerInv, Early, Taken,
       Namesakes
  <2>6. ThreadInv'
    BY <1>15 DEF Configure, LetGo, Unheld, ThreadInv
  <2>. QED
    BY <2>1, <2>2, <2>3, <2>4, <2>5, <2>6
<1>16. ASSUME NEW c \in Containers, ContainerExits(c) PROVE Inv'
  <2>1. TypeOK'
    BY <1>16 DEF ContainerExits, Unheld
  <2>2. OwnerInv'
    BY <1>16 DEF ContainerExits, Unheld, OwnerInv, CompleteInv, Owning
  <2>3. RulesInv'
    BY <1>16 DEF ContainerExits, Unheld, RulesInv, OwnerInv, Owning
  <2>4. CompleteInv'
    BY <1>16 DEF ContainerExits, Unheld, CompleteInv, OwnerInv, RulesInv, Owning
  <2>5. VethInv'
    BY <1>16 DEF ContainerExits, Unheld, VethInv, ThreadInv, OwnerInv, Early, Taken,
       Namesakes
  <2>6. ThreadInv'
    BY <1>16 DEF ContainerExits, Unheld, ThreadInv
  <2>. QED
    BY <2>1, <2>2, <2>3, <2>4, <2>5, <2>6
<1>17. ASSUME NEW c \in Containers, SupervisorEnds(c) PROVE Inv'
  <2>1. TypeOK'
    BY <1>17 DEF SupervisorEnds, Attached, ThreadEnds, LetGo, Unheld
  <2>2. OwnerInv'
    BY <1>17 DEF SupervisorEnds, Attached, ThreadEnds, LetGo, Unheld, OwnerInv,
       CompleteInv, Owning
  <2>3. RulesInv'
    BY <1>17 DEF SupervisorEnds, Attached, ThreadEnds, LetGo, Unheld, RulesInv,
       OwnerInv, Owning
  <2>4. CompleteInv'
    BY <1>17 DEF SupervisorEnds, Attached, ThreadEnds, LetGo, Unheld, CompleteInv,
       OwnerInv, RulesInv, Owning
  <2>5. VethInv'
    BY <1>17 DEF SupervisorEnds, Attached, ThreadEnds, LetGo, Unheld, VethInv,
       ThreadInv, OwnerInv, Early, Taken, Namesakes
  <2>6. ThreadInv'
    BY <1>17 DEF SupervisorEnds, Attached, ThreadEnds, LetGo, Unheld, ThreadInv
  <2>. QED
    BY <2>1, <2>2, <2>3, <2>4, <2>5, <2>6
<1>18. ASSUME NEW c \in Containers, CallFails(c) PROVE Inv'
  <2>0. 1 \in 1..(NumRules + 1)
    OBVIOUS
  <2>1. TypeOK'
    BY <1>18, <2>0 DEF CallFails, BreaksOff, Meets
  <2>2. OwnerInv'
    BY <1>18 DEF CallFails, BreaksOff, Meets, OwnerInv, CompleteInv, Owning
  <2>3. RulesInv'
    BY <1>18 DEF CallFails, BreaksOff, Meets, RulesInv, OwnerInv, Owning
  <2>4. CompleteInv'
    BY <1>18 DEF CallFails, BreaksOff, Meets, CompleteInv, OwnerInv, RulesInv, Owning
  <2>5. VethInv'
    BY <1>18 DEF CallFails, BreaksOff, Meets, VethInv, ThreadInv, OwnerInv, Early,
       Taken, Namesakes
  <2>6. ThreadInv'
    BY <1>18 DEF CallFails, BreaksOff, Meets, ThreadInv
  <2>. QED
    BY <2>1, <2>2, <2>3, <2>4, <2>5, <2>6
<1>19. ASSUME NEW c \in Containers, ConfigureFails(c) PROVE Inv'
  <2>1. TypeOK'
    BY <1>19 DEF ConfigureFails, Meets, ThreadEnds, LetGo, Unheld
  <2>2. OwnerInv'
    BY <1>19 DEF ConfigureFails, Meets, ThreadEnds, LetGo, Unheld, OwnerInv,
       CompleteInv, Owning
  <2>3. RulesInv'
    BY <1>19 DEF ConfigureFails, Meets, ThreadEnds, LetGo, Unheld, RulesInv, OwnerInv,
       Owning
  <2>4. CompleteInv'
    BY <1>19 DEF ConfigureFails, Meets, ThreadEnds, LetGo, Unheld, CompleteInv,
       OwnerInv, RulesInv, Owning
  <2>5. VethInv'
    BY <1>19 DEF ConfigureFails, Meets, ThreadEnds, LetGo, Unheld, VethInv, ThreadInv,
       OwnerInv, Early, Taken, Namesakes
  <2>6. ThreadInv'
    BY <1>19 DEF ConfigureFails, Meets, ThreadEnds, LetGo, Unheld, ThreadInv
  <2>. QED
    BY <2>1, <2>2, <2>3, <2>4, <2>5, <2>6
<1>20. ASSUME NEW c \in Containers, SupervisorKilled(c) PROVE Inv'
  <2>0. 1 \in 1..(NumRules + 1)
    OBVIOUS
  <2>1. TypeOK'
    BY <1>20, <2>0 DEF SupervisorKilled, BreaksOff, Meets, ThreadEnds, LetGo, Unheld
  <2>2. OwnerInv'
    BY <1>20 DEF SupervisorKilled, BreaksOff, Meets, ThreadEnds, LetGo, Unheld,
       OwnerInv, CompleteInv, Owning
  <2>3. RulesInv'
    BY <1>20 DEF SupervisorKilled, BreaksOff, Meets, ThreadEnds, LetGo, Unheld,
       RulesInv, OwnerInv, Owning
  <2>4. CompleteInv'
    <3>1. \A d \in Containers : master'[d] => master[d]
      BY <1>20 DEF SupervisorKilled, ThreadEnds, LetGo, Unheld
    <3>2. /\ UNCHANGED <<bridge, rules>>
          /\ stage' = [stage EXCEPT ![c] = "lost"]
          /\ broken' = (broken \/ stage[c] \in SettingUp \ {"adding"})
      BY <1>20 DEF SupervisorKilled, BreaksOff
    <3>. QED
      BY <3>1, <3>2 DEF CompleteInv, OwnerInv, Owning
  <2>5. VethInv'
    BY <1>20 DEF SupervisorKilled, BreaksOff, Meets, ThreadEnds, LetGo, Unheld, VethInv,
       ThreadInv, OwnerInv, Early, Taken, Namesakes
  <2>6. ThreadInv'
    BY <1>20 DEF SupervisorKilled, BreaksOff, Meets, ThreadEnds, LetGo, Unheld,
       ThreadInv
  <2>. QED
    BY <2>1, <2>2, <2>3, <2>4, <2>5, <2>6
<1>21. CASE Reboot
  <2>0. 1 \in 1..(NumRules + 1)
    OBVIOUS
  <2>1. TypeOK'
    BY <1>21, <2>0 DEF Reboot
  <2>2. OwnerInv'
    BY <1>21 DEF Reboot, OwnerInv, CompleteInv, Owning
  <2>3. RulesInv'
    BY <1>21 DEF Reboot, RulesInv, OwnerInv, Owning
  <2>4. CompleteInv'
    BY <1>21 DEF Reboot, CompleteInv, OwnerInv, RulesInv, Owning
  <2>5. VethInv'
    BY <1>21 DEF Reboot, VethInv, ThreadInv, OwnerInv, Early, Taken, Namesakes
  <2>6. ThreadInv'
    BY <1>21 DEF Reboot, ThreadInv
  <2>. QED
    BY <2>1, <2>2, <2>3, <2>4, <2>5, <2>6
<1>22. CASE BridgeDeleted
  <2>1. TypeOK'
    BY <1>22 DEF BridgeDeleted
  <2>2. OwnerInv'
    BY <1>22 DEF BridgeDeleted, OwnerInv, CompleteInv, Owning
  <2>3. RulesInv'
    BY <1>22 DEF BridgeDeleted, RulesInv, OwnerInv, Owning
  <2>4. CompleteInv'
    BY <1>22 DEF BridgeDeleted, CompleteInv, OwnerInv, RulesInv, Owning
  <2>5. VethInv'
    BY <1>22 DEF BridgeDeleted, VethInv, ThreadInv, OwnerInv, Early, Taken, Namesakes
  <2>6. ThreadInv'
    BY <1>22 DEF BridgeDeleted, ThreadInv
  <2>. QED
    BY <2>1, <2>2, <2>3, <2>4, <2>5, <2>6
<1>23. CASE UNCHANGED vars
  <2>1. TypeOK'
    BY <1>23 DEF vars
  <2>2. OwnerInv'
    BY <1>23 DEF vars, OwnerInv, CompleteInv, Owning
  <2>3. RulesInv'
    BY <1>23 DEF vars, RulesInv, OwnerInv, Owning
  <2>4. CompleteInv'
    BY <1>23 DEF vars, CompleteInv, OwnerInv, RulesInv, Owning
  <2>5. VethInv'
    BY <1>23 DEF vars, VethInv, ThreadInv, OwnerInv, Early, Taken, Namesakes
  <2>6. ThreadInv'
    BY <1>23 DEF vars, ThreadInv
  <2>. QED
    BY <2>1, <2>2, <2>3, <2>4, <2>5, <2>6
<1>. HIDE DEF Inv, TypeOK, Rules, Stages, SettingUp, Attaching, host, ends, container,
         history, To
<1>. QED
  BY <1>1, <1>2, <1>3, <1>4, <1>5, <1>6, <1>7, <1>8, <1>9, <1>10, <1>11, <1>12, <1>13,
     <1>14, <1>15, <1>16, <1>17, <1>18, <1>19, <1>20, <1>21, <1>22, <1>23 DEF Next

LEMMA InvAlways == Spec => []Inv
  BY InitInv, NextInv, PTL DEF Spec

-----------------------------------------------------------------------------
(* The bridge, the rules, the links and the stage of every launch keep their
   types.                                                                  *)
THEOREM NetTypeCorrect == Spec => []TypeOK
<1>1. Inv => TypeOK
  BY DEF Inv
<1>. QED
  BY InvAlways, <1>1, PTL

(* add_iptables_rules asks whether a rule exists and appends it in another
   call; no rule is ever doubled, however many launches meet, because the
   kernel lets only one of them add the bridge.                            *)
THEOREM NoRuleIsDoubled == Spec => []NoRuleTwice
<1>1. Inv => NoRuleTwice
  BY DEF Inv, RulesInv, NoRuleTwice
<1>. QED
  BY InvAlways, <1>1, PTL

(* A container that runs on the bridge finds it up and every NAT rule in
   place, while no launch is in init_global_network and none broke off in
   it since the bridge was added.                                          *)
THEOREM OutboundAlwaysWorks == Spec => []OutboundWorks
<1>1. Inv => OutboundWorks
  BY DEF Inv, CompleteInv, OutboundWorks, SettingUp, Owning
<1>. QED
  BY InvAlways, <1>1, PTL

(* attach_container leaves a running container with its end of a plugged
   veth pair, unless a fault hit this launch or it met a container whose id
   begins with the same six digits; such a container, launched when the pair
   is there, does not take it away.                                        *)
THEOREM RunningGetsAttached == Spec => []RunningIsAttached
<1>1. Inv => RunningIsAttached
  BY DEF Inv, VethInv, RunningIsAttached, Attached
<1>. QED
  BY InvAlways, <1>1, PTL
=============================================================================
