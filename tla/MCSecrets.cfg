CONSTANTS
  Phrases = {p1, p2}
  Seeds = {s1}
  BadSeeds = {b1}
  HARDENED = 4
  Accounts = {0, 1, 3, 4, 5}
  Messages = {"m1", "m2"}
SPECIFICATION Spec
INVARIANTS SameWallet PhoneAndWebAgree ProofsHold ChatAndMoneyAgree RoomIsOfBackup
PROPERTY RoomsDistinct
