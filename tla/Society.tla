------------------------------ MODULE Society ------------------------------
(***************************************************************************)
(* Parties together with what else players are members of: the chat's      *)
(* channels (chat.cpp, the channel commands of game.cpp) and the reports   *)
(* of rule violations (game.cpp).  All of them keep plain pointers to      *)
(* players, which must be gone before the player is.                       *)
(*                                                                         *)
(* A party's channel is found by the address of the party, and             *)
(* sendClosePrivate takes a player out of it only if the player has a      *)
(* client and its party pointer still is set.                              *)
(*                                                                         *)
(* Abstracted: what is said, levels and vocations that close a public      *)
(* channel to a player (a refusal changes nothing), scripts that refuse;   *)
(* of what a group allows, only the flag that lets answer reports, which a *)
(* player may be given or lose at any time.                                *)
(***************************************************************************)
EXTENDS Party

CONSTANTS
    Guild,
    PrivateId,  \* the ids of private channels, 100 to 9999 in the code
    Public,     \* channels of channels.xml
    Rvr         \* CHANNEL_RVR, one of them

ASSUME SocietyAssumption ==
    /\ Rvr \in Public
    /\ PrivateId \cap (PartyId \cup Guild \cup Public) = {}
    /\ None \notin Guild
    /\ {"open", "gone"} \cap Player = {}

VARIABLES
    client,    \* players that have a client
    guild,     \* Player::m_guildId
    users,     \* ChatChannel::m_users
    mapped,    \* parties and guilds that m_partyChannels and m_guildChannels have
    owner,     \* PrivateChatChannel::m_owner, None where there is no channel
    guests,    \* PrivateChatChannel::m_invites
    gamemaster, \* players whose group has PlayerFlag_CanAnswerRuleViolations
    report,    \* Game::ruleViolations: None, "open", who deals with it, or
               \* "gone": the pointer to who did and is in the world no more
    relieved   \* history: whose report was dealt with by one who lost the flag

chatVars == <<users, mapped, owner, guests>>
reportVars == <<gamemaster, report, relieved>>
societyVars == <<partyVars, client, guild, chatVars, reportVars>>

Channel == PartyId \cup Guild \cup PrivateId \cup Public

SocietyInit ==
    /\ PartyInit
    /\ client = {}
    /\ guild = [p \in Player |-> None]
    /\ users = [c \in Channel |-> {}]
    /\ mapped = {}
    /\ owner = [c \in PrivateId |-> None]
    /\ guests = [c \in PrivateId |-> {}]
    /\ gamemaster \in SUBSET Player
    /\ report = [p \in Player |-> None]
    /\ relieved = {}

-----------------------------------------------------------------------------
(* Mutated forms, one per plausible slip.                                  *)

\* Someone excluded cannot come again but stays in the channel.
MUTShownOut(c, q) == users[c]

-----------------------------------------------------------------------------
(* The chat.                                                               *)

\* getChannel finds the channel c for p.
Finds(p, c) ==
    \/ c \in PartyId /\ c = parties.party[p] /\ c \in mapped
    \/ c \in Guild /\ c = guild[p] /\ c \in mapped
    \/ c \in Public /\ (c = Rvr => p \in gamemaster)
    \/ c \in PrivateId /\ owner[c] # None /\ (p = owner[c] \/ p \in guests[c])

\* deleteChannel, and clear() of Chat: the channels of C are no more.
Delete(C, without) ==
    /\ users' = [c \in Channel |-> IF c \in C THEN {} ELSE without[c]]
    /\ mapped' = mapped \ C
    /\ owner' = [c \in PrivateId |-> IF c \in C THEN None ELSE owner[c]]
    /\ guests' = [c \in PrivateId |-> IF c \in C THEN {} ELSE guests[c]]

\* getChannelList makes the channels of the party and of the guild of p.
RequestChannels(p) ==
    /\ p \in online
    /\ mapped' = mapped \cup ({parties.party[p], guild[p]} \ {None})
    /\ UNCHANGED <<partyVars, client, guild, users, owner, guests, reportVars>>

\* playerOpenChannel: addUserToChannel.
OpenChannel(p, c) ==
    /\ p \in online
    /\ Finds(p, c)
    /\ users' = [users EXCEPT ![c] = @ \cup {p}]
    /\ UNCHANGED <<partyVars, client, guild, mapped, owner, guests, reportVars>>

\* removeUserFromChannel; a private channel ends with its owner.
CloseChannel(p, c) ==
    /\ p \in online
    /\ Finds(p, c)
    /\ Delete(IF c \in PrivateId /\ owner[c] = p THEN {c} ELSE {},
              [users EXCEPT ![c] = @ \ {p}])
    /\ UNCHANGED <<partyVars, client, guild, reportVars>>

\* createChannel, and the owner is in it at once.
CreatePrivateChannel(p) ==
    /\ p \in online
    /\ \A c \in PrivateId : owner[c] # p
    /\ \E c \in PrivateId :
        /\ owner[c] = None
        /\ owner' = [owner EXCEPT ![c] = p]
        /\ users' = [users EXCEPT ![c] = {p}]
    /\ UNCHANGED <<partyVars, client, guild, mapped, guests, reportVars>>

\* playerChannelInvite.
ChannelInvite(p, q) ==
    /\ {p, q} \subseteq online
    /\ p # q
    /\ \E c \in PrivateId :
        /\ owner[c] = p
        /\ guests' = [guests EXCEPT ![c] = @ \cup {q}]
    /\ UNCHANGED <<partyVars, client, guild, users, mapped, owner, reportVars>>

\* The users of c once q was excluded.
ShownOut(c, q) == users[c] \ {q}

\* playerChannelExclude.
ChannelExclude(p, q) ==
    /\ {p, q} \subseteq online
    /\ p # q
    /\ \E c \in PrivateId :
        /\ owner[c] = p
        /\ q \in guests[c]
        /\ guests' = [guests EXCEPT ![c] = @ \ {q}]
        /\ users' = [users EXCEPT ![c] = ShownOut(c, q)]
    /\ UNCHANGED <<partyVars, client, guild, mapped, owner, reportVars>>

\* Chat::reload; the channels of guilds are kept.
ReloadChannels ==
    /\ Delete(Channel \ Guild, users)
    /\ UNCHANGED <<partyVars, client, guild, reportVars>>

JoinGuild(p, g) ==
    /\ p \in online
    /\ guild[p] = None
    /\ guild' = [guild EXCEPT ![p] = g]
    /\ UNCHANGED <<partyVars, client, chatVars, reportVars>>

\* Player::leaveGuild: sendClosePrivate before the guild is forgotten.
LeaveGuild(p) ==
    /\ p \in online
    /\ guild[p] # None
    /\ guild' = [guild EXCEPT ![p] = None]
    /\ users' = [users EXCEPT ![guild[p]] = IF p \in client THEN @ \ {p} ELSE @]
    /\ UNCHANGED <<partyVars, client, mapped, owner, guests, reportVars>>

-----------------------------------------------------------------------------
(* Reports.                                                                *)

\* What p reports is as r says now, and it is new who deals with it.
Reported(p, r) ==
    /\ report' = [report EXCEPT ![p] = r]
    /\ relieved' = relieved \ {p}
    /\ UNCHANGED <<partyVars, client, guild, chatVars, gamemaster>>

\* playerReportRuleViolation; an older report is cancelled.
ReportRuleViolation(p) ==
    /\ p \in online
    /\ Reported(p, "open")

\* playerProcessRuleViolation.
ProcessRuleViolation(g, p) ==
    /\ {g, p} \subseteq online
    /\ g \in gamemaster
    /\ report[p] = "open"
    /\ Reported(p, g)

\* playerCloseRuleViolation (by anybody) and playerCancelRuleViolation.
CloseRuleViolation(p) ==
    /\ p \in online
    /\ report[p] # None
    /\ Reported(p, None)

\* setGroup: /promote and /demote, while p is online.
ChangeGroup(p) ==
    /\ p \in online
    /\ IF p \in gamemaster
       THEN /\ gamemaster' = gamemaster \ {p}
            /\ relieved' = relieved \cup {q \in Player : report[q] = p}
       ELSE /\ gamemaster' = gamemaster \cup {p}
            /\ UNCHANGED relieved
    /\ UNCHANGED <<partyVars, client, guild, chatVars, report>>

-----------------------------------------------------------------------------
(* Parties, with their channels.                                           *)

\* The party's channel after a command that may have disbanded parties: who
\* had a client and still pointed to the party when it was told is out.
Dismissed(leaving) ==
    [c \in Channel |->
        IF c \in PartyId /\ parties.leader[c] # None /\ parties'.leader[c] = None
        THEN users[c] \ {m \in client \ {leaving} : parties.party[m] = c}
        ELSE users[c]]

\* A command of p or the departure of p changed the parties.
PartyCommand(p) ==
    \/ \E q \in Player :
        /\ \/ InviteToParty(p, q) \/ JoinParty(p, q) \/ PassLeadership(p, q)
           \/ RevokeInvitation(p, q)
        /\ users' = Dismissed(None)
    \/ /\ \/ \E on \in BOOLEAN : ShareExperience(p, on)
          \/ EarnPoints(p) \/ LosePoints(p) \/ Advance(p)
       /\ UNCHANGED users
    \/ (LeaveParty(p) \/ Ghost(p)) /\ users' = Dismissed(p)

\* A player comes into the world, with a client and with the guild it is saved with.
Login(p) ==
    /\ Appear(p)
    /\ client' = client \cup {p}
    /\ UNCHANGED <<guild, chatVars, reportVars>>

\* The connection is lost or taken up again while the player is in the world.
ChangeClient(p) ==
    /\ p \in online
    /\ client' = IF p \in client THEN client \ {p} ELSE client \cup {p}
    /\ UNCHANGED <<partyVars, guild, chatVars, reportVars>>

\* The private channels deleted because p goes.
ForgottenBy(p) == {c \in PrivateId : owner[c] = p}

\* What becomes of a report when p goes: p's own is cancelled, and those p deals
\* with are closed, but only if p still has the flag.
LeftBy(p, q) ==
    IF q = p \/ (report[q] = p /\ p \in gamemaster) THEN None
    ELSE IF report[q] = p THEN "gone"
    ELSE report[q]

\* Player::onCreatureDisappear: invitations and party, reports, channels; then
\* the player is removed.
Logout(p) ==
    /\ Disappear(p)
    /\ client' = client \ {p}
    /\ Delete(ForgottenBy(p), [c \in Channel |-> Dismissed(p)[c] \ {p}])
    /\ report' = [q \in Player |-> LeftBy(p, q)]
    /\ relieved' = {q \in relieved : LeftBy(p, q) # None}
    /\ UNCHANGED <<guild, gamemaster>>

SocietyNext ==
    \/ \E p \in Player :
        \/ PartyCommand(p) /\ UNCHANGED <<client, guild, mapped, owner, guests, reportVars>>
        \/ RequestChannels(p) \/ CreatePrivateChannel(p)
        \/ \E c \in Channel : OpenChannel(p, c) \/ CloseChannel(p, c)
        \/ \E q \in Player : ChannelInvite(p, q) \/ ChannelExclude(p, q)
                             \/ ProcessRuleViolation(p, q)
        \/ \E g \in Guild : JoinGuild(p, g)
        \/ LeaveGuild(p)
        \/ ReportRuleViolation(p) \/ CloseRuleViolation(p) \/ ChangeGroup(p)
        \/ Login(p) \/ ChangeClient(p) \/ Logout(p)
    \/ ReloadChannels

SocietySpec == SocietyInit /\ [][SocietyNext]_societyVars

-----------------------------------------------------------------------------
(* What must hold.                                                         *)

\* Nothing has a pointer to a player who is not in the world: no party, no
\* invitation, no channel and no report (Player::onCreatureDisappear has to find
\* them all before setRemoved).  Who deals with a report may answer it and is in
\* the world; only a report whose gamemaster lost the flag in the meantime is
\* found by nobody and may be left with a pointer to one who is gone.
GoneLeavesNothing ==
    /\ NobodyGone
    /\ \A c \in Channel : users[c] \subseteq online
    /\ \A p \in Player : report[p] # None =>
        /\ p \in online
        /\ \/ report[p] \in {"open"} \cup (online \cap gamemaster)
           \/ p \in relieved /\ report[p] \in {"gone"} \cup online

\* A private channel lives as long as its owner wants it, there is one for
\* each owner, and only the owner and invited players are in it (createChannel,
\* excludePlayer, removeUserFromChannels against getChannel and addUser).
PrivateStaysPrivate ==
    \A c \in PrivateId :
        /\ owner[c] = None => users[c] = {} /\ guests[c] = {}
        /\ owner[c] # None => owner[c] \in online /\ users[c] \subseteq {owner[c]} \cup guests[c]
        /\ \A d \in PrivateId \ {c} : owner[c] = owner[d] => owner[c] = None
===========================================================================
