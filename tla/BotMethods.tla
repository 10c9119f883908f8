---------------------------- MODULE BotMethods -----------------------------
(* The Bot API methods about the bot itself, queries, business accounts,
   sticker sets, payments, gifts and files.  One definition per handler or
   helper, with the source's name.                                           *)
EXTENDS SendMethods

\* The handlers that check their arguments, connect, check again, and call.
Call(rpc) == Args & Connected & Args & Does(rpc)
Query(rpc) == Args & Connected & Args & Asks(rpc)

(* inline.go *)
answerInlineQuery == Connected & Args & Does("messages.setInlineBotResults")
answerCallbackQuery == Connected & Does("messages.setBotCallbackAnswer")
setGameScore ==
  Args & Connected & Args
  & ((Args & Does("messages.setInlineGameScore"))
     | (Args & Resolved & Args & Does("messages.setGameScore")))
getGameHighScores ==
  Args & Connected
  & ((Args & Asks("messages.getInlineGameHighScores"))
     | (Args & Resolved & Args & Asks("messages.getGameHighScores")))
savePreparedInlineMessage == Call("messages.savePreparedInlineMessage")
answerWebAppQuery == Call("messages.sendWebViewResultMessage")
answerGuestQuery == Call("messages.setBotGuestChatResult")
savePreparedKeyboardButton == Call("bots.requestWebViewButton")

(* me.go: the bot's identity, cached once read *)
loadMeLocked == Peeks("users.getFullUser")
getMe == Nothing | (Connected & Opt(loadMeLocked) & Args)

(* business.go: calls wrapped with invokeWithBusinessConnection *)
requireBusinessConn == Connected & Args
invokeBusiness(rpc) == Does(rpc)
getBusinessConnection ==
  requireBusinessConn & Asks("account.getBotBusinessConnection")
setBusinessAccountName ==
  Args & requireBusinessConn & invokeBusiness("account.updateProfile")
setBusinessAccountBio ==
  requireBusinessConn & invokeBusiness("account.updateProfile")
setBusinessAccountUsername ==
  requireBusinessConn & invokeBusiness("account.updateUsername")
readBusinessMessage ==
  Args & Resolved & requireBusinessConn & Args
  & invokeBusiness("messages.readHistory")
deleteBusinessMessages ==
  Args & requireBusinessConn & invokeBusiness("messages.deleteMessages")
setBusinessAccountProfilePhoto ==
  Args & requireBusinessConn & Args & uploadFile
  & invokeBusiness("photos.uploadProfilePhoto")
removeBusinessAccountProfilePhoto ==
  requireBusinessConn & invokeBusiness("photos.updateProfilePhoto")
getBusinessAccountStarBalance ==
  requireBusinessConn & Asks("payments.getStarsStatus")
setBusinessAccountGiftSettings ==
  Args & requireBusinessConn & invokeBusiness("account.setGlobalPrivacySettings")
transferBusinessAccountStars ==
  requireBusinessConn & Args & Asks("payments.getPaymentForm") & Finds("form")
  & invokeBusiness("payments.sendStarsForm")
getBusinessAccountGifts ==
  requireBusinessConn & Asks("payments.getSavedStarGifts")
deleteStory ==
  requireBusinessConn & Connected & Resolved & Args
  & invokeBusiness("stories.deleteStories")

(* bot_profile.go *)
getMyCommands == Connected & Asks("bots.getBotCommands")
parseBotCommands == Args
setMyCommands == Connected & parseBotCommands & Does("bots.setBotCommands")
deleteMyCommands == Connected & Does("bots.resetBotCommands")
getMyName == Connected & Asks("bots.getBotInfo")
setMyName == Args & Connected & Does("bots.setBotInfo")
getMyDescription == Connected & Asks("bots.getBotInfo")
setMyDescription == Connected & Does("bots.setBotInfo")
getMyShortDescription == Connected & Asks("bots.getBotInfo")
setMyShortDescription == Connected & Does("bots.setBotInfo")
getMyDefaultAdministratorRights ==
  Connected & Asks("users.getFullUser") & Finds("rights")
SetRights(rpc) == Does(rpc) | Forgives(rpc)
setMyDefaultAdministratorRights ==
  Connected & (SetRights("bots.setBotBroadcastDefaultAdminRights")
               | SetRights("bots.setBotGroupDefaultAdminRights"))
setMyProfilePhoto ==
  Connected & Args & uploadFile & Does("photos.uploadProfilePhoto")
removeMyProfilePhoto ==
  Connected & (Does("photos.deletePhotos") | Forgives("photos.deletePhotos"))
getUserProfilePhotos == Query("photos.getUserPhotos")
getUserProfileAudios == Query("users.getSavedMusic")
setPassportDataErrors == Call("users.setSecureValueErrors")
getCustomEmojiStickers ==
  Query("messages.getCustomEmojiDocuments")
  & Opt(Peeks("messages.getStickerSet"))
setUserEmojiStatus == Call("bots.updateUserEmojiStatus")
getUserPersonalChatMessages == Query("messages.getPersonalChannelHistory")
getManagedBotToken ==
  Args & Connected & (Asks("bots.exportBotToken") | Does("bots.exportBotToken"))
getManagedBotAccessSettings == Query("bots.getAccessSettings")
setManagedBotAccessSettings == Args & Connected & Does("bots.editAccessSettings")
replaceManagedBotToken == Args & Connected & Does("bots.exportBotToken")

(* sticker_sets.go: what messages.uploadMedia stores no chat sees *)
stickerSetInput == Args
fileIDToInputDocument == Args
connectStickers == Connected
uploadToInputDocument ==
  fileIDToInputDocument
  | (Args & uploadFile & Asks("messages.uploadMedia") & Finds("document"))
setStickerSetTitle ==
  connectStickers & Args & Does("stickers.renameStickerSet")
deleteStickerSet ==
  connectStickers & stickerSetInput & Does("stickers.deleteStickerSet")
setCustomEmojiStickerSetThumbnail ==
  connectStickers & stickerSetInput & Does("stickers.setStickerSetThumb")
setStickerPositionInSet ==
  connectStickers & Args & Does("stickers.changeStickerPosition")
deleteStickerFromSet ==
  connectStickers & Args & Does("stickers.removeStickerFromSet")
setStickerEmojiList == connectStickers & Args & Does("stickers.changeSticker")
setStickerKeywords == connectStickers & Args & Does("stickers.changeSticker")
parseMaskPosition == Args
setStickerMaskPosition ==
  connectStickers & Args & parseMaskPosition & Does("stickers.changeSticker")
getStickerSet == connectStickers & Asks("messages.getStickerSet") & Finds("set")
getForumTopicIconStickers ==
  connectStickers & Asks("messages.getStickerSet") & Finds("set")
uploadStickerFile == Args & connectStickers & uploadToInputDocument
createNewStickerSet ==
  Args & connectStickers & Args
  & (uploadToInputDocument | uploadToInputDocument & uploadToInputDocument)
  & Does("stickers.createStickerSet")
addStickerToSet ==
  Args & connectStickers & Args & uploadToInputDocument
  & Does("stickers.addStickerToSet")
replaceStickerInSet ==
  Args & connectStickers & Args & uploadToInputDocument
  & Does("stickers.replaceSticker")
setStickerSetThumbnail ==
  Args & connectStickers & Args & Opt(Opt(Peeks("messages.uploadMedia"))
                                      & uploadToInputDocument)
  & Does("stickers.setStickerSetThumb")

(* payments.go *)
buildInvoiceExtendedMedia == Opt(Peeks("upload.saveFilePart"))
buildInvoiceMedia == buildInvoiceExtendedMedia
sendInvoice ==
  Args & Connected & Resolved & buildInvoiceMedia & sendMediaMessage
createInvoiceLink ==
  Args & Connected & buildInvoiceMedia & Does("payments.exportInvoice")
  & Opt(Finds("invoice"))
answerShippingQuery == Call("messages.setBotCallbackAnswer")
answerPreCheckoutQuery == Call("messages.setBotCallbackAnswer")
refundStarPayment == Args & Connected & Does("payments.refundStarsCharge")
getMyStarBalance == Connected & Asks("payments.getStarsTransactions")
getStarTransactions == Connected & Asks("payments.getStarsTransactions")
\* The form is read and never sent: the answer is ok and nothing is bought.
sendGift ==
  Args & Connected & Args & Opt(Resolved)
  & Asks("payments.getPaymentForm")
giftPremiumSubscription ==
  Args & Connected & Asks("payments.getPaymentForm") & Finds("form") & Args
  & Does("payments.sendStarsForm")
resolveGiftSetNames == Opt(Peeks("messages.getStickerSet"))
getAvailableGifts ==
  Connected & Asks("payments.getStarGifts") & resolveGiftSetNames
getUserGifts ==
  Args & Connected & Other("user_id") & Asks("payments.getSavedStarGifts")
getChatGifts ==
  Args & Connected & Resolved & Asks("payments.getSavedStarGifts")
transferGift ==
  Args & Connected & Other("new_owner_chat_id")
  & (invokeBusiness("payments.transferStarGift")
     | Does("payments.transferStarGift"))
upgradeGift ==
  requireBusinessConn & Connected & invokeBusiness("payments.upgradeStarGift")
convertGiftToStars ==
  requireBusinessConn & Connected & invokeBusiness("payments.convertStarGift")
editUserStarSubscription ==
  Args & Connected & Does("payments.changeStarsSubscription")
getUserChatBoosts ==
  Args & Connected & Resolved & Asks("premium.getUserBoosts")

(* files_download.go, file_reference.go: a file is read in chunks; when its
   reference has expired the message it came from is read again, once; if that
   fails the first error is the answer                                       *)
writeChunksToFile == Finds("temporary file")
downloadWebByLocation == Asks("upload.getWebFile") & Args
downloadByLocation == Asks("upload.getFile") & Args
fetchSourceMessages ==
  Asks("channels.getMessages") | Asks("messages.getMessages")
tryRefreshFileReference == fetchSourceMessages & Args
downloadViaCDN == Asks("upload.getCdnFile") & Args & Finds("temporary file")
downloadToTemp ==
  Finds("directory")
  & (Args | (downloadWebByLocation & writeChunksToFile)
     | (Opt(Peeks("upload.getFile") & tryRefreshFileReference)
        & ((downloadByLocation & writeChunksToFile)
           | (Peeks("upload.getFile") & downloadViaCDN))))
getFile == Args & Connected & Args & downloadToTemp

\* The methods of this module.
BotWays ==
  [answerInlineQuery |-> answerInlineQuery,
   answerCallbackQuery |-> answerCallbackQuery, setGameScore |-> setGameScore,
   getGameHighScores |-> getGameHighScores,
   savePreparedInlineMessage |-> savePreparedInlineMessage,
   answerWebAppQuery |-> answerWebAppQuery,
   answerGuestQuery |-> answerGuestQuery,
   savePreparedKeyboardButton |-> savePreparedKeyboardButton, getMe |-> getMe,
   getBusinessConnection |-> getBusinessConnection,
   setBusinessAccountName |-> setBusinessAccountName,
   setBusinessAccountBio |-> setBusinessAccountBio,
   setBusinessAccountUsername |-> setBusinessAccountUsername,
   readBusinessMessage |-> readBusinessMessage,
   deleteBusinessMessages |-> deleteBusinessMessages,
   setBusinessAccountProfilePhoto |-> setBusinessAccountProfilePhoto,
   removeBusinessAccountProfilePhoto |-> removeBusinessAccountProfilePhoto,
   getBusinessAccountStarBalance |-> getBusinessAccountStarBalance,
   setBusinessAccountGiftSettings |-> setBusinessAccountGiftSettings,
   transferBusinessAccountStars |-> transferBusinessAccountStars,
   getBusinessAccountGifts |-> getBusinessAccountGifts,
   deleteStory |-> deleteStory, getMyCommands |-> getMyCommands,
   setMyCommands |-> setMyCommands, deleteMyCommands |-> deleteMyCommands,
   getMyName |-> getMyName, setMyName |-> setMyName,
   getMyDescription |-> getMyDescription,
   setMyDescription |-> setMyDescription,
   getMyShortDescription |-> getMyShortDescription,
   setMyShortDescription |-> setMyShortDescription,
   getMyDefaultAdministratorRights |-> getMyDefaultAdministratorRights,
   setMyDefaultAdministratorRights |-> setMyDefaultAdministratorRights,
   setMyProfilePhoto |-> setMyProfilePhoto,
   removeMyProfilePhoto |-> removeMyProfilePhoto,
   getUserProfilePhotos |-> getUserProfilePhotos,
   getUserProfileAudios |-> getUserProfileAudios,
   setPassportDataErrors |-> setPassportDataErrors,
   getCustomEmojiStickers |-> getCustomEmojiStickers,
   setUserEmojiStatus |-> setUserEmojiStatus,
   getUserPersonalChatMessages |-> getUserPersonalChatMessages,
   getManagedBotToken |-> getManagedBotToken,
   getManagedBotAccessSettings |-> getManagedBotAccessSettings,
   setManagedBotAccessSettings |-> setManagedBotAccessSettings,
   replaceManagedBotToken |-> replaceManagedBotToken,
   setStickerSetTitle |-> setStickerSetTitle,
   deleteStickerSet |-> deleteStickerSet,
   setCustomEmojiStickerSetThumbnail |-> setCustomEmojiStickerSetThumbnail,
   setStickerPositionInSet |-> setStickerPositionInSet,
   deleteStickerFromSet |-> deleteStickerFromSet,
   setStickerEmojiList |-> setStickerEmojiList,
   setStickerKeywords |-> setStickerKeywords,
   setStickerMaskPosition |-> setStickerMaskPosition,
   getStickerSet |-> getStickerSet,
   getForumTopicIconStickers |-> getForumTopicIconStickers,
   uploadStickerFile |-> uploadStickerFile,
   createNewStickerSet |-> createNewStickerSet,
   addStickerToSet |-> addStickerToSet,
   replaceStickerInSet |-> replaceStickerInSet,
   setStickerSetThumbnail |-> setStickerSetThumbnail,
   sendInvoice |-> sendInvoice, createInvoiceLink |-> createInvoiceLink,
   answerShippingQuery |-> answerShippingQuery,
   answerPreCheckoutQuery |-> answerPreCheckoutQuery,
   refundStarPayment |-> refundStarPayment,
   getMyStarBalance |-> getMyStarBalance,
   getStarTransactions |-> getStarTransactions, sendGift |-> sendGift,
   giftPremiumSubscription |-> giftPremiumSubscription,
   getAvailableGifts |-> getAvailableGifts, getUserGifts |-> getUserGifts,
   getChatGifts |-> getChatGifts, transferGift |-> transferGift,
   upgradeGift |-> upgradeGift, convertGiftToStars |-> convertGiftToStars,
   editUserStarSubscription |-> editUserStarSubscription,
   getUserChatBoosts |-> getUserChatBoosts, getFile |-> getFile]
=============================================================================
