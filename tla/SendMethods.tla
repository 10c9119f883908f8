---------------------------- MODULE SendMethods ----------------------------
(* The Bot API methods that send, edit, forward and delete messages, one
   definition per handler or helper, with the source's name.                 *)
EXTENDS Steps, TLC

\* The cache may know that the bot cannot write to the chat (chat_access.go).
checkWriteAccess == Step("writable", {})

\* An uploaded file: chunks go to Telegram's store, no chat sees them.
uploadFile == Uploads

(* messages_send.go *)
forceResolveUser == Step("introduces", {"users.getFullUser"})
resolveBroadcastPeer == Opt(When({"user"}) & forceResolveUser) & Resolved
cachePeersFromMessage == Saves
finishSend == Finds("message") & cachePeersFromMessage
sendMessage ==
  Args & checkWriteAccess & Connected & resolveBroadcastPeer & Args
  & (Does("messages.sendMedia") | Does("messages.sendMessage")) & finishSend

(* messages_edit.go *)
resolveTargetMessage == Args & Connected & Resolved
\* Mutant: MESSAGE_NOT_MODIFIED is answered as a success.
EditForgiven == Forgives("messages.editMessage") & cachePeersFromMessage
invokeEdit ==
  Does("messages.editMessage") & Finds("message") & cachePeersFromMessage
editMessageText == Args & resolveTargetMessage & Args & invokeEdit
editMessageCaption == Args & resolveTargetMessage & Args & invokeEdit
editMessageReplyMarkup == Args & resolveTargetMessage & Args & invokeEdit

(* messages_delete.go, messages_pin.go *)
DeleteByPeer ==
  (WhenPeer({"channel"}) & Does("channels.deleteMessages"))
  | (WhenPeer({"user", "chat"}) & Does("messages.deleteMessages"))
deleteMessage == Args & Connected & Resolved & DeleteByPeer
deleteMessages == Args & Connected & Resolved & DeleteByPeer
pinChatMessage == resolveTargetMessage & Does("messages.updatePinnedMessage")
unpinChatMessage == resolveTargetMessage & Does("messages.updatePinnedMessage")
unpinAllChatMessages ==
  Args & Connected & Resolved & Does("messages.unpinAllMessages")

(* media_helpers.go *)
uploadThumbnail == Peeks("upload.saveFilePart")
uploadedDocMedia ==
  Connected & Args & uploadFile & Opt(uploadThumbnail)
uploadedPhotoMedia == Connected & Args & uploadFile
docMediaInput == Args | uploadedDocMedia
photoMediaInput == Args | uploadedPhotoMedia
parseMediaDescriptor == Args & Opt(uploadedPhotoMedia | uploadedDocMedia)
resolvePaidMediaItem == Args & Opt(uploadedPhotoMedia | uploadedDocMedia)
resolvePaidMediaArray == Args & Opt(resolvePaidMediaItem)

(* media_send.go *)
\* Mutant: the reply markup is parsed after the message is sent.
SendThenCheck ==
  checkWriteAccess & Does("messages.sendMedia") & Args
  & Opt(cachePeersFromMessage)
doSendMediaResult ==
  checkWriteAccess & Args & Does("messages.sendMedia")
  & Opt(cachePeersFromMessage)
doSendMedia == doSendMediaResult
sendMediaPhoto ==
  Args & Connected & Resolved & photoMediaInput & doSendMedia
sendSingleDoc == Args & Connected & Resolved & docMediaInput & doSendMedia
sendPhoto == sendMediaPhoto
sendDocument == sendSingleDoc
sendAudio == sendSingleDoc
sendVideo == sendSingleDoc
sendAnimation == sendSingleDoc
sendVoice == sendSingleDoc
sendVideoNote == sendSingleDoc
sendSticker == sendSingleDoc

(* media_group.go and editMessageMedia *)
sendMediaGroup ==
  Args & checkWriteAccess & Connected & resolveBroadcastPeer
  & parseMediaDescriptor & Does("messages.sendMultiMedia")
  & cachePeersFromMessage & Finds("messages")
editMessageMedia ==
  Args & resolveTargetMessage & parseMediaDescriptor & Args & invokeEdit

(* messages_forward.go *)
doForwardOrCopy ==
  Args & checkWriteAccess & Connected & Other("from_chat_id") & Resolved
  & Does("messages.forwardMessages") & cachePeersFromMessage
forwardMessage == doForwardOrCopy & Finds("message")
forwardMessages == doForwardOrCopy
copyMessage ==
  doForwardOrCopy & Finds("message") & Opt(Resolved & Args & invokeEdit)
copyMessages == doForwardOrCopy

(* chat_action.go: USER_IS_BOT is answered with true *)
sendChatAction ==
  Args & Connected & Resolved & Args
  & (Does("messages.setTyping") | Forgives("messages.setTyping"))

(* send_methods.go *)
sendMediaMessage ==
  checkWriteAccess & Args & Does("messages.sendMedia") & Finds("message")
  & cachePeersFromMessage
sendContact == Args & Connected & Resolved & sendMediaMessage
sendVenue == Args & Connected & Resolved & sendMediaMessage
sendLocation == Args & Connected & Resolved & sendMediaMessage
sendDice == Args & Connected & Resolved & sendMediaMessage
sendPoll ==
  Args & Connected & Resolved & Args & Opt(parseMediaDescriptor)
  & sendMediaMessage
stopPoll ==
  Args & Connected & Resolved & Args & Asks("messages.getMessages") & Args
  & Does("messages.editMessage") & Opt(Finds("updates"))
sendPaidMedia ==
  Args & Connected & Resolved & resolvePaidMediaArray
  & Does("messages.sendMedia") & Opt(cachePeersFromMessage)
setMessageReaction ==
  Args & Connected & Resolved & Args & Does("messages.sendReaction")

(* misc_methods.go *)
editMessageLiveLocation ==
  Args & Connected
  & ((Args & Does("messages.editInlineBotMessage"))
     | (Args & Resolved & Args & invokeEdit))
stopMessageLiveLocation == Args & Connected & Resolved & Args & invokeEdit
sendGame ==
  Args & Connected & Resolved & Does("messages.sendMedia")
  & Opt(cachePeersFromMessage)

(* stories_misc.go: a story goes to the chat, or to the business account that
   the connection names *)
resolveStoryPeer ==
  (Asks("account.getBotBusinessConnection") & Args)
  | (Args & Resolved)
storyUpload == Args & uploadFile
storyContentMedia == Args & storyUpload
storyResult == Finds("story")
postStory ==
  Args & Connected & resolveStoryPeer & storyContentMedia & Args
  & Does("stories.sendStory") & storyResult
editStory ==
  Args & Connected & resolveStoryPeer & Args & Opt(storyContentMedia) & Args
  & Does("stories.editStory") & storyResult
repostStory ==
  Args & Connected & resolveStoryPeer & Other("from_chat_id") & Args
  & Does("stories.sendStory")
approveSuggestedPost ==
  Args & Connected & Resolved & Args
  & Does("messages.toggleSuggestedPostApproval")
declineSuggestedPost ==
  Args & Connected & Resolved & Args
  & Does("messages.toggleSuggestedPostApproval")
sendMessageDraft ==
  Args & Connected & Resolved & Args & Does("messages.setTyping")
sendRichMessageDraft ==
  Args & Connected & Resolved & Does("messages.setTyping")
sendRichMessage ==
  Args & Connected & Resolved & Does("messages.sendMessage")
  & Opt(cachePeersFromMessage)
parseChecklistJSON == Args
sendChecklist ==
  parseChecklistJSON & Args & Connected & Resolved
  & Does("messages.sendMedia") & Opt(cachePeersFromMessage)
editMessageChecklist == parseChecklistJSON & resolveTargetMessage & invokeEdit
deleteMessageReaction ==
  Args & Connected & Resolved & Args & Opt(Other("actor_chat_id")) & Args
  & Does("messages.deleteParticipantReaction")
deleteAllMessageReactions ==
  Args & Connected & Resolved & Args & Opt(Other("actor_chat_id")) & Args
  & Does("messages.deleteParticipantReactions")
sendLivePhoto ==
  Args & Connected & Resolved & Args & uploadFile
  & Does("messages.sendMedia") & Opt(cachePeersFromMessage)

\* The methods of this module.
SendWays ==
  [sendMessage |-> sendMessage, editMessageText |-> editMessageText,
   editMessageCaption |-> editMessageCaption,
   editMessageReplyMarkup |-> editMessageReplyMarkup,
   deleteMessage |-> deleteMessage, deleteMessages |-> deleteMessages,
   pinChatMessage |-> pinChatMessage, unpinChatMessage |-> unpinChatMessage,
   unpinAllChatMessages |-> unpinAllChatMessages, sendPhoto |-> sendPhoto,
   sendDocument |-> sendDocument, sendAudio |-> sendAudio,
   sendVideo |-> sendVideo, sendAnimation |-> sendAnimation,
   sendVoice |-> sendVoice, sendVideoNote |-> sendVideoNote,
   sendSticker |-> sendSticker, sendMediaGroup |-> sendMediaGroup,
   editMessageMedia |-> editMessageMedia, forwardMessage |-> forwardMessage,
   forwardMessages |-> forwardMessages, copyMessage |-> copyMessage,
   copyMessages |-> copyMessages, sendChatAction |-> sendChatAction,
   sendContact |-> sendContact, sendVenue |-> sendVenue,
   sendLocation |-> sendLocation, sendDice |-> sendDice,
   sendPoll |-> sendPoll, stopPoll |-> stopPoll,
   sendPaidMedia |-> sendPaidMedia, setMessageReaction |-> setMessageReaction,
   editMessageLiveLocation |-> editMessageLiveLocation,
   stopMessageLiveLocation |-> stopMessageLiveLocation, sendGame |-> sendGame,
   postStory |-> postStory, editStory |-> editStory,
   repostStory |-> repostStory, approveSuggestedPost |-> approveSuggestedPost,
   declineSuggestedPost |-> declineSuggestedPost,
   sendMessageDraft |-> sendMessageDraft,
   sendRichMessageDraft |-> sendRichMessageDraft,
   sendRichMessage |-> sendRichMessage, sendChecklist |-> sendChecklist,
   editMessageChecklist |-> editMessageChecklist,
   deleteMessageReaction |-> deleteMessageReaction,
   deleteAllMessageReactions |-> deleteAllMessageReactions,
   sendLivePhoto |-> sendLivePhoto]
=============================================================================
