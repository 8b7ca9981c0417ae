SPECIFICATION FairSpec
CONSTANTS
    MaxAppThreads = 2
    MaxReceived = 2
    MaxOthers = 1
  
PROPERTIES TerminateIsObeyed ReceivedIsHandled
