\* Two brokers, every read of the task among the assignments of the page, with
\* saves of the parser and restarts.
SPECIFICATION MqttSpecJusta
CONSTANT Brokers <- MCBrokers
INVARIANT AjustesEnteros
PROPERTIES
  ApagadoCorta
  SesionSegunAjustes
