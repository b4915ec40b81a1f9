SPECIFICATION Spec
CONSTANTS
  Clients = {1, 2}
  SubscribeItems = {"networkInfo"}
  RequestItems = {"tac"}
  MaxMsgs = 2
INVARIANTS TypeOK SubscribersServed FrameworkServesClients ToldLatest
VIEW View
