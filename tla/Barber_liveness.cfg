SPECIFICATION FairSpec
CONSTANTS
  MaxClients = 3
  Nobody = Nobody
  Main = Main
  WaitingRoom = 2
  Barbers = 2
  Chairs = 1
  Programs = {"zad1", "zad2"}
  StaleStart = TRUE
  MayDoze = TRUE
  MaxInterrupts = 2
PROPERTIES CalledIsServed
CHECK_DEADLOCK FALSE
