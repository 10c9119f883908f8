---------------------------- MODULE ChatMethods ----------------------------
(* The Bot API methods that read and administer chats: members, settings,
   verification, invite links and forum topics.  One definition per handler or
   helper, with the source's name.                                           *)
EXTENDS Steps, TLC

\* What nearly every handler of chat_admin.go, chat_settings.go and
\* chat_info.go begins with: its arguments, the connection, parseChatID.
parseChatID == Parsed
Begin == Args & Connected & parseChatID
resolveInputChannel == InputChannel

\* A basic group is addressed by the signed chat_id, as it came.
InGroup(a) == When({"chat"}) & SignedChat & a
InChannel(a) == When({"channel"}) & resolveInputChannel & a
AnyGroup == Only({"chat", "channel"})

(* chat_admin.go *)
promoteChatMember ==
  Begin & Only({"channel"}) & resolveInputChannel & Does("channels.editAdmin")
restrictChatMember ==
  Begin & Only({"channel"}) & Args & resolveInputChannel
  & Does("channels.editBanned")
setChatAdministratorCustomTitle ==
  Begin & AnyGroup
  & (InGroup(Does("messages.editChatParticipantRank"))
     | InChannel(Does("channels.editAdmin")))
banChatMember ==
  Begin & AnyGroup
  & (InGroup(Does("messages.deleteChatUser"))
     | InChannel(Does("channels.editBanned")
                 & Opt(Does("channels.deleteParticipantHistory"))))
NotBanned == Forgives("only_if_banned")
unbanChatMember ==
  Begin & Only({"channel"}) & resolveInputChannel
  & Opt(Peeks("channels.getParticipant"))
  & (Does("channels.editBanned") | NotBanned)
banChatSenderChat ==
  Begin & Only({"channel"}) & Args & resolveInputChannel & Args
  & Does("channels.editBanned")
unbanChatSenderChat ==
  Begin & Only({"channel"}) & Args & resolveInputChannel & Args
  & Does("channels.editBanned")
setChatMemberTag ==
  Begin & AnyGroup
  & (InGroup(Does("messages.editChatParticipantRank"))
     | InChannel(Does("channels.editAdmin")))

(* chat_settings.go *)
setChatTitle ==
  Begin & AnyGroup
  & (InGroup(Does("messages.editChatTitle"))
     | InChannel(Does("channels.editTitle")))
setChatDescription ==
  Begin & Only({"channel"}) & resolveInputChannel & Args
  & Does("messages.editChatAbout")
setChatPhoto ==
  Begin & Args & Uploads & AnyGroup
  & (InGroup(Does("messages.editChatPhoto"))
     | InChannel(Does("channels.editPhoto")))
deleteChatPhoto ==
  Begin & AnyGroup
  & (InGroup(Does("messages.editChatPhoto"))
     | InChannel(Does("channels.editPhoto")))
setChatPermissions ==
  Begin & Args & AnyGroup
  & (InGroup(Does("messages.editChatDefaultBannedRights"))
     | InChannel(Args & Does("messages.editChatDefaultBannedRights")))
setChatStickerSet ==
  Begin & Only({"channel"}) & resolveInputChannel
  & Does("channels.setStickers")
deleteChatStickerSet ==
  Begin & Only({"channel"}) & resolveInputChannel
  & Does("channels.setStickers")

\* The chat of a menu button counts only if it is a user: for any other chat, or
\* without a chat_id, the request is about the bot's default button.
MenuButtonUser ==
  (parseChatID & ((When({"user"}) & Resolved)
                  | (When({"chat", "channel"}) & Myself)))
  | Myself
setChatMenuButton ==
  Connected & MenuButtonUser & Args & Does("bots.setBotMenuButton")
getChatMenuButton == Connected & MenuButtonUser & Asks("bots.getBotMenuButton")

(* chat_verify.go: a user is taken from the cache or not at all *)
\* Mutant: a chat that is no user is taken as the menu button takes it.
VerifyMyself == MenuButtonUser
resolvePeerForVerify ==
  parseChatID
  & ((When({"user"}) & Step("cached", {}) & Resolved)
     | InGroup(Nothing) | InChannel(Nothing))
verifyChat ==
  Args & Connected & resolvePeerForVerify & Does("bots.setCustomVerification")
removeChatVerification ==
  Args & Connected & resolvePeerForVerify & Does("bots.setCustomVerification")
verifyUser == Args & Connected & Does("bots.setCustomVerification")
removeUserVerification == Args & Connected & Does("bots.setCustomVerification")

(* chat_info.go: getChatGroup looks its row up by the signed id, where no row
   is, so that what it read is lost; getChatChannel saves it                 *)
getChatPrivate ==
  When({"user"}) & Asks("users.getFullUser") & Finds("user") & Args
getChatGroup == InGroup(Asks("messages.getFullChat") & Finds("chat") & Learns)
getChatChannel ==
  InChannel(Looks("channels.getFullChannel") & Finds("channel") & Learns)
getChat == Begin & (getChatPrivate | getChatGroup | getChatChannel)
getChatAdminsGroup == InGroup(Asks("messages.getFullChat") & Finds("chat"))
getChatAdminsChannel == InChannel(Asks("channels.getParticipants"))
getChatAdministrators ==
  Begin & AnyGroup & (getChatAdminsGroup | getChatAdminsChannel)
getChatMemberPrivate ==
  When({"user"}) & Asks("users.getFullUser") & Finds("user") & Args
getChatMemberGroup ==
  InGroup(Asks("messages.getFullChat") & Finds("chat") & Args)
getChatMemberChannel ==
  InChannel(Asks("channels.getParticipant") & Finds("participant"))
getChatMember ==
  Begin & (getChatMemberPrivate | getChatMemberGroup | getChatMemberChannel)
getMemberCountGroup == InGroup(Asks("messages.getFullChat"))
getMemberCountChannel == InChannel(Asks("channels.getFullChannel"))
getChatMemberCount ==
  Begin & (When({"user"}) | getMemberCountGroup | getMemberCountChannel)
\* Mutant: every chat is left as a channel with that raw id is.
LeaveAsChannel == Begin & AnyGroup & InputChannel & Leaves("channels.leaveChannel")
leaveChat ==
  Begin & AnyGroup
  & (InGroup(Leaves("messages.deleteChatUser"))
     | InChannel(Leaves("channels.leaveChannel")))

(* invite_links.go *)
\* Mutant: the peer is resolved on the assumption that someone has connected.
ResolveUnconnected == Resolved
resolvePeerForChat == Connected & Resolved
exportedToInviteLink == Finds("link")
exportChatInviteLink ==
  resolvePeerForChat & Does("messages.exportChatInvite") & exportedToInviteLink
createChatInviteLink ==
  resolvePeerForChat & Does("messages.exportChatInvite") & exportedToInviteLink
createChatSubscriptionInviteLink ==
  resolvePeerForChat & Does("messages.exportChatInvite") & exportedToInviteLink
EditInvite ==
  resolvePeerForChat & Args & Does("messages.editExportedChatInvite")
  & exportedToInviteLink
editChatInviteLink == EditInvite
editChatSubscriptionInviteLink == EditInvite
revokeChatInviteLink == EditInvite
hideChatJoinRequest ==
  Args & resolvePeerForChat & Does("messages.hideChatJoinRequest")
approveChatJoinRequest == hideChatJoinRequest
declineChatJoinRequest == hideChatJoinRequest
answerChatJoinRequestQuery ==
  Connected & Args & Does("bots.setJoinChatResults")
sendChatJoinRequestWebApp == Connected & Args & Does("bots.setJoinChatResults")

(* forum_topics.go *)
parseTopicID == Args
createForumTopic ==
  resolvePeerForChat & Args & Does("messages.createForumTopic")
editForumTopic ==
  resolvePeerForChat & parseTopicID & Does("messages.editForumTopic")
toggleTopicClosed ==
  resolvePeerForChat & parseTopicID & Does("messages.editForumTopic")
closeForumTopic == toggleTopicClosed
reopenForumTopic == toggleTopicClosed
deleteForumTopic ==
  resolvePeerForChat & parseTopicID & Does("messages.deleteTopicHistory")
unpinAllForumTopicMessages ==
  resolvePeerForChat & parseTopicID & Does("messages.unpinAllMessages")
editGeneralForumTopic == resolvePeerForChat & Does("messages.editForumTopic")
toggleGeneralTopicClosed ==
  resolvePeerForChat & Does("messages.editForumTopic")
closeGeneralForumTopic == toggleGeneralTopicClosed
reopenGeneralForumTopic == toggleGeneralTopicClosed
toggleGeneralTopicHidden ==
  resolvePeerForChat & Does("messages.editForumTopic")
hideGeneralForumTopic == toggleGeneralTopicHidden
unhideGeneralForumTopic == toggleGeneralTopicHidden
unpinAllGeneralForumTopicMessages ==
  resolvePeerForChat & Does("messages.unpinAllMessages")

\* The methods of this module.
ChatWays ==
  [promoteChatMember |-> promoteChatMember,
   restrictChatMember |-> restrictChatMember,
   setChatAdministratorCustomTitle |-> setChatAdministratorCustomTitle,
   banChatMember |-> banChatMember, unbanChatMember |-> unbanChatMember,
   banChatSenderChat |-> banChatSenderChat,
   unbanChatSenderChat |-> unbanChatSenderChat,
   setChatMemberTag |-> setChatMemberTag, setChatTitle |-> setChatTitle,
   setChatDescription |-> setChatDescription, setChatPhoto |-> setChatPhoto,
   deleteChatPhoto |-> deleteChatPhoto,
   setChatPermissions |-> setChatPermissions,
   setChatStickerSet |-> setChatStickerSet,
   deleteChatStickerSet |-> deleteChatStickerSet,
   setChatMenuButton |-> setChatMenuButton,
   getChatMenuButton |-> getChatMenuButton, verifyChat |-> verifyChat,
   removeChatVerification |-> removeChatVerification,
   verifyUser |-> verifyUser,
   removeUserVerification |-> removeUserVerification, getChat |-> getChat,
   getChatAdministrators |-> getChatAdministrators,
   getChatMember |-> getChatMember, getChatMemberCount |-> getChatMemberCount,
   leaveChat |-> leaveChat, exportChatInviteLink |-> exportChatInviteLink,
   createChatInviteLink |-> createChatInviteLink,
   createChatSubscriptionInviteLink |-> createChatSubscriptionInviteLink,
   editChatInviteLink |-> editChatInviteLink,
   editChatSubscriptionInviteLink |-> editChatSubscriptionInviteLink,
   revokeChatInviteLink |-> revokeChatInviteLink,
   approveChatJoinRequest |-> approveChatJoinRequest,
   declineChatJoinRequest |-> declineChatJoinRequest,
   answerChatJoinRequestQuery |-> answerChatJoinRequestQuery,
   sendChatJoinRequestWebApp |-> sendChatJoinRequestWebApp,
   createForumTopic |-> createForumTopic, editForumTopic |-> editForumTopic,
   closeForumTopic |-> closeForumTopic, reopenForumTopic |-> reopenForumTopic,
   deleteForumTopic |-> deleteForumTopic,
   unpinAllForumTopicMessages |-> unpinAllForumTopicMessages,
   editGeneralForumTopic |-> editGeneralForumTopic,
   closeGeneralForumTopic |-> closeGeneralForumTopic,
   reopenGeneralForumTopic |-> reopenGeneralForumTopic,
   hideGeneralForumTopic |-> hideGeneralForumTopic,
   unhideGeneralForumTopic |-> unhideGeneralForumTopic,
   unpinAllGeneralForumTopicMessages |-> unpinAllGeneralForumTopicMessages]
=============================================================================
