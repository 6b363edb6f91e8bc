SPECIFICATION HSpec
CONSTANTS
  Senders = {token, alice, bob}
  Contents = {c1, c2}
  ReceiptIds = {1, 2, 3}
  MaxMinted = 3
INVARIANTS TypeOK NoForgedReceipts
